---- MODULE Spec2Model ----
(***************************************************************************)
(* A model of the partyx particle engine: ParticlePool (the bounded free   *)
(* list), ParticleItem (one particle's physics and visual state) and       *)
(* ParticleEmitter (spawn timing, environment forces, culling, lifecycle). *)
(*                                                                         *)
(* JavaScript numbers are modelled as exact rationals <<n, d>> in lowest   *)
(* terms with d >= 0; <<1, 0>> is Infinity.  Times are in milliseconds.    *)
(***************************************************************************)
EXTENDS Integers, Sequences, FiniteSets, TLC

(***************************************************************************)
(* Bounds of the model.                                                    *)
(***************************************************************************)
\* The clock stops once it has delivered this many steps of ClockStep
\* milliseconds.
MaxClock == 6
\* At most this many particle instances are ever constructed in one run.
MaxInstances == 3
\* At most this many instances are ever constructed by the fast emitter.
MaxFastInstances == 101
\* At most this many instances are ever constructed by the pool called directly.
MaxPoolInstances == 2
\* Size of the largest prepopulate request of the pool specification.
MaxPrepopulate == 2
\* The user of the pool advances the items it holds at most this many times.
MaxUses == 1

(***************************************************************************)
(* Rational arithmetic.                                                    *)
(***************************************************************************)
RECURSIVE GCD(_, _)
GCD(a, b) == IF b = 0 THEN a ELSE GCD(b, a % b)

IAbs(n) == IF n < 0 THEN -n ELSE n

ISign(n) == IF n < 0 THEN -1 ELSE IF n > 0 THEN 1 ELSE 0

\* The rational n/d in lowest terms; n/0 is +-Infinity (0/0 is NaN).
Q(n, d) ==
    IF d = 0 THEN <<ISign(n), 0>>
    ELSE LET g == GCD(IAbs(n), IAbs(d))
             s == ISign(d)
         IN  <<(s * n) \div g, (s * d) \div g>>

I(n) == <<n, 1>>

Zero == <<0, 1>>
One == <<1, 1>>
Inf == <<1, 0>>

Add(a, b) ==
    IF a[2] = 0 /\ b[2] = 0 THEN Q(a[1] + b[1], 0)
    ELSE IF a[2] = 0 THEN a
    ELSE IF b[2] = 0 THEN b
    ELSE Q(a[1] * b[2] + b[1] * a[2], a[2] * b[2])

Neg(a) == <<-a[1], a[2]>>

Sub(a, b) == Add(a, Neg(b))

Mul(a, b) == Q(a[1] * b[1], a[2] * b[2])

\* JavaScript division: x / 0 is +-Infinity.
Div(a, b) == Q(a[1] * b[2] * ISign(b[1]), a[2] * IAbs(b[1]))

Lt(a, b) ==
    IF a[2] = 0 /\ b[2] = 0 THEN a[1] < b[1]
    ELSE IF a[2] = 0 THEN a[1] < 0
    ELSE IF b[2] = 0 THEN b[1] > 0
    ELSE a[1] * b[2] < b[1] * a[2]

Gt(a, b) == Lt(b, a)

Le(a, b) == ~Lt(b, a)

Ge(a, b) == ~Lt(a, b)

IsZero(a) == a[1] = 0 /\ a[2] # 0

Abs(a) == <<IAbs(a[1]), a[2]>>

\* Math.sign
Sign(a) == I(ISign(a[1]))

\* Math.min / Math.max
Min(a, b) == IF Lt(b, a) THEN b ELSE a

Max(a, b) == IF Lt(a, b) THEN b ELSE a

\* Math.floor of a finite number, as an integer.
FloorInt(a) == a[1] \div a[2]

\* The % operator on non-negative operands with a positive divisor.
Mod(a, b) == Sub(a, Mul(I(FloorInt(Div(a, b))), b))

\* Whether a JavaScript number is truthy (not 0).
TruthyNum(a) == ~IsZero(a)

(***************************************************************************)
(* Configuration values (types.ts).  An optional value that is absent is   *)
(* Null; a ParticleOptionRange is a number or a [min, max] pair.           *)
(***************************************************************************)
Null == [t |-> "none"]

Num(r) == [t |-> "num", v |-> r]

Range(lo, hi) == [t |-> "range", lo |-> lo, hi |-> hi]

StartEnd(s, e) == [t |-> "startEnd", start |-> s, end |-> e]

Fn(name) == [t |-> "fn", name |-> name]

ColorArray(vals) == [t |-> "array", vals |-> vals]

Vector1(value, velocity, acceleration, maxVelocity) ==
    [t |-> "vec1", value |-> value, velocity |-> velocity,
     acceleration |-> acceleration, maxVelocity |-> maxVelocity]

\* A ParticleVector2Physics with only x and y given.
Vector2(x, y) ==
    [t |-> "vec2", x |-> x, y |-> y,
     velocity |-> Null, velocityX |-> Null, velocityY |-> Null,
     acceleration |-> Null, accelerationX |-> Null, accelerationY |-> Null,
     maxVelocity |-> Null, maxVelocityX |-> Null, maxVelocityY |-> Null]

Rectangle(x, y, w, h) == [t |-> "rect", x |-> x, y |-> y, width |-> w, height |-> h]

\* JavaScript truthiness of an optional configuration value: undefined and
\* the number 0 are falsy; arrays, objects and functions are truthy.
Truthy(o) ==
    CASE o.t = "none" -> FALSE
      [] o.t = "num" -> TruthyNum(o.v)
      [] OTHER -> TRUE

\* The value of an optional number, or dflt when it is absent (a ?? b).
OrElse(o, dflt) == IF o.t = "none" THEN dflt ELSE o.v

\* The value of an optional number, or dflt when it is falsy (a || b).
OrFalsy(o, dflt) == IF Truthy(o) THEN o.v ELSE dflt

\* ParticleEmitter.randomFromRange; r is the value Math.random() returns.
RandomFromRange(range, r) ==
    CASE range.t = "range" -> Add(Mul(r, Sub(range.hi, range.lo)), range.lo)
      [] range.t = "num" -> range.v
      [] OTHER -> Zero

(***************************************************************************)
(* Colours: a tint is the number 0xRRGGBB; a colour handler holds the four *)
(* normalised channels.                                                    *)
(***************************************************************************)
White == 16777215

ColorChannels(c) ==
    LET n == c[1]
    IN  <<Q((n \div 65536) % 256, 255), Q((n \div 256) % 256, 255), Q(n % 256, 255), One>>

ChannelsToNumber(ch) ==
    I(FloorInt(Mul(ch[1], I(255))) * 65536
      + FloorInt(Mul(ch[2], I(255))) * 256
      + FloorInt(Mul(ch[3], I(255))))

(***************************************************************************)
(* ParticleItem.  A nullable field that holds no value is NoValue.         *)
(***************************************************************************)
NoValue == <<>>

NoHook == "none"

\* A freshly constructed instance: the field initialisers of the class and
\* the defaults of the sprite it extends (empty 1x1 texture, centred anchor).
NewParticle ==
    [seed |-> Zero, surfaceFactor |-> One, inPool |-> FALSE, mass |-> One,
     velocityX |-> Zero, velocityY |-> Zero,
     accelerationX |-> Zero, accelerationY |-> Zero,
     scaleVelocityX |-> Zero, scaleVelocityY |-> Zero,
     scaleAccelerationX |-> Zero, scaleAccelerationY |-> Zero,
     rotationVelocity |-> Zero, rotationAcceleration |-> Zero,
     maxVelocityX |-> I(-1), maxVelocityY |-> I(-1),
     maxScaleVelocityX |-> I(-1), maxScaleVelocityY |-> I(-1),
     maxRotationVelocity |-> I(-1),
     initAlpha |-> Zero, alphaStart |-> I(-1), alphaEnd |-> I(-1),
     alphaGetter |-> NoHook,
     colorStart |-> NoValue, colorEnd |-> NoValue, colorGetter |-> NoHook,
     scaleStart |-> NoValue, scaleEnd |-> NoValue,
     lifespan |-> Inf, currentLife |-> Zero, onUpdate |-> NoHook,
     initX |-> Zero, initY |-> Zero, initVelocityX |-> Zero, initVelocityY |-> Zero,
     initScaleX |-> Zero, initScaleY |-> Zero,
     initRotation |-> Zero, initRotationVelocity |-> Zero,
     x |-> Zero, y |-> Zero, scaleX |-> One, scaleY |-> One,
     rotation |-> Zero, alpha |-> One, tint |-> I(White),
     textureWidth |-> One, textureHeight |-> One,
     anchorX |-> Q(1, 2), anchorY |-> Q(1, 2),
     destroyed |-> FALSE]

\* ParticleItem.reset
Reset(p) ==
    [p EXCEPT
        !.x = Zero, !.y = Zero,
        !.velocityX = Zero, !.velocityY = Zero,
        !.accelerationX = Zero, !.accelerationY = Zero,
        !.scaleX = One, !.scaleY = One,
        !.scaleVelocityX = Zero, !.scaleVelocityY = Zero,
        !.scaleAccelerationX = Zero, !.scaleAccelerationY = Zero,
        !.rotation = Zero, !.rotationVelocity = Zero, !.rotationAcceleration = Zero,
        !.maxVelocityX = I(-1), !.maxVelocityY = I(-1),
        !.maxScaleVelocityX = I(-1), !.maxScaleVelocityY = I(-1),
        !.maxRotationVelocity = I(-1),
        !.alphaStart = I(-1), !.alphaEnd = I(-1), !.alphaGetter = NoHook,
        !.alpha = One, !.tint = I(White),
        !.onUpdate = NoHook,
        !.colorStart = NoValue, !.colorEnd = NoValue, !.colorGetter = NoHook,
        !.scaleStart = NoValue, !.scaleEnd = NoValue,
        !.lifespan = Inf, !.currentLife = Zero,
        !.initAlpha = Zero, !.initX = Zero, !.initY = Zero,
        !.initVelocityX = Zero, !.initVelocityY = Zero,
        !.initScaleX = Zero, !.initScaleY = Zero,
        !.initRotation = Zero, !.initRotationVelocity = Zero]

\* ParticleItem.updateSurfaceFactor
UpdateSurfaceFactor(p) ==
    [p EXCEPT !.surfaceFactor =
        Div(Mul(Mul(p.textureWidth, p.textureHeight), Mul(p.scaleX, p.scaleY)), I(1000))]

\* clampAbs without its test against -maxAbs.
ClampAbsAbove(value, maxAbs) ==
    IF Lt(maxAbs, Zero) THEN value
    ELSE IF Gt(value, maxAbs) THEN maxAbs
    ELSE value

\* ParticleItem.clampAbs
ClampAbs(value, maxAbs) ==
    IF Lt(maxAbs, Zero) THEN value
    ELSE IF Gt(value, maxAbs) THEN maxAbs
    ELSE IF Lt(value, Neg(maxAbs)) THEN Neg(maxAbs)
    ELSE value

\* The sprite's width and height: the texture's size times the scale's magnitude.
Width(p) == Mul(Abs(p.scaleX), p.textureWidth)

Height(p) == Mul(Abs(p.scaleY), p.textureHeight)

(***************************************************************************)
(* The places of ParticleItem.init that call randomFromRange.  Math.random *)
(* is consulted only where the configured value is a [min, max] pair; rnd  *)
(* maps each such place to the value Math.random returns there.            *)
(***************************************************************************)
Sites ==
    {"x", "y", "velocity", "velocityX", "velocityY",
     "acceleration", "accelerationX", "accelerationY",
     "scale", "scaleStart", "scaleEnd", "scaleX", "scaleY",
     "scaleVelocity", "scaleVelocityX", "scaleVelocityY",
     "scaleAcceleration", "scaleAccelerationX", "scaleAccelerationY",
     "rotation", "rotationVelocity", "rotationAcceleration",
     "alphaStart", "alphaEnd", "colorStart", "colorEnd", "lifespan"}

SiteOption(so, site) ==
    LET pos == so.position
        sv == IF so.scale.t = "vec2" THEN so.scale ELSE Vector2(Null, Null)
        sse == IF so.scale.t = "startEnd" THEN so.scale ELSE StartEnd(Null, Null)
        rot == IF so.rotation.t = "vec1" THEN so.rotation ELSE Vector1(Null, Null, Null, Null)
        al == IF so.alpha.t = "startEnd" THEN so.alpha ELSE StartEnd(Null, Null)
        col == IF so.color.t = "startEnd" THEN so.color ELSE StartEnd(Null, Null)
    IN  CASE site = "x" -> pos.x
          [] site = "y" -> pos.y
          [] site = "velocity" -> pos.velocity
          [] site = "velocityX" -> pos.velocityX
          [] site = "velocityY" -> pos.velocityY
          [] site = "acceleration" -> pos.acceleration
          [] site = "accelerationX" -> pos.accelerationX
          [] site = "accelerationY" -> pos.accelerationY
          [] site = "scale" -> so.scale
          [] site = "scaleStart" -> sse.start
          [] site = "scaleEnd" -> sse.end
          [] site = "scaleX" -> sv.x
          [] site = "scaleY" -> sv.y
          [] site = "scaleVelocity" -> sv.velocity
          [] site = "scaleVelocityX" -> sv.velocityX
          [] site = "scaleVelocityY" -> sv.velocityY
          [] site = "scaleAcceleration" -> sv.acceleration
          [] site = "scaleAccelerationX" -> sv.accelerationX
          [] site = "scaleAccelerationY" -> sv.accelerationY
          [] site = "rotation" -> rot.value
          [] site = "rotationVelocity" -> rot.velocity
          [] site = "rotationAcceleration" -> rot.acceleration
          [] site = "alphaStart" -> al.start
          [] site = "alphaEnd" -> al.end
          [] site = "colorStart" -> col.start
          [] site = "colorEnd" -> col.end
          [] site = "lifespan" -> so.lifespan

DrawSites(so) == {site \in Sites : SiteOption(so, site).t = "range"}

\* randomFromRange at one place of init.
Sample(so, rnd, site) ==
    RandomFromRange(SiteOption(so, site), IF site \in DOMAIN rnd THEN rnd[site] ELSE Zero)

(***************************************************************************)
(* The callbacks a configuration may carry (types.ts): each is one of a    *)
(* few named functions.                                                    *)
(***************************************************************************)
\* onInit: "texture" gives the particle a 10x10 texture (README's example).
ApplyOnInit(name, p, contentFrame) ==
    CASE name = "texture" -> [p EXCEPT !.textureWidth = I(10), !.textureHeight = I(10)]
      [] OTHER -> p

\* onUpdate: "mass" makes the particle heavier, "halt" stops it.
ApplyOnUpdate(name, p, elapsedMS, contentFrame) ==
    CASE name = "mass" -> [p EXCEPT !.mass = I(2)]
      [] name = "halt" -> [p EXCEPT !.velocityX = Zero, !.velocityY = Zero]
      [] OTHER -> p

\* An alpha function: "half" is constant 1/2.
AlphaGetterValue(name, p, elapsedMS) == Q(1, 2)

\* A colour function: "red" is constant 0xff0000.
ColorGetterValue(name, p, elapsedMS) == I(16711680)

(***************************************************************************)
(* ParticleItem.init, one operator per step of the code, in its order.     *)
(* so is data.spawnOptions.                                                *)
(***************************************************************************)
InitXY(p, so, rnd) ==
    [p EXCEPT !.x = Sample(so, rnd, "x"), !.y = Sample(so, rnd, "y")]

InitVelocity(p, so, rnd) ==
    IF Truthy(so.position.velocity)
    THEN [p EXCEPT !.velocityX = Sample(so, rnd, "velocity"),
                   !.velocityY = Sample(so, rnd, "velocity")]
    ELSE [p EXCEPT
            !.velocityX = IF Truthy(so.position.velocityX)
                          THEN Sample(so, rnd, "velocityX") ELSE @,
            !.velocityY = IF Truthy(so.position.velocityY)
                          THEN Sample(so, rnd, "velocityY") ELSE @]

InitAcceleration(p, so, rnd) ==
    IF Truthy(so.position.acceleration)
    THEN [p EXCEPT !.accelerationX = Sample(so, rnd, "acceleration"),
                   !.accelerationY = Sample(so, rnd, "acceleration")]
    ELSE [p EXCEPT
            !.accelerationX = IF Truthy(so.position.accelerationX)
                              THEN Sample(so, rnd, "accelerationX") ELSE @,
            !.accelerationY = IF Truthy(so.position.accelerationY)
                              THEN Sample(so, rnd, "accelerationY") ELSE @]

InitMaxVelocity(p, so) ==
    IF Truthy(so.position.maxVelocity)
    THEN [p EXCEPT !.maxVelocityX = so.position.maxVelocity.v,
                   !.maxVelocityY = so.position.maxVelocity.v]
    ELSE [p EXCEPT
            !.maxVelocityX = IF Truthy(so.position.maxVelocityX)
                             THEN so.position.maxVelocityX.v ELSE @,
            !.maxVelocityY = IF Truthy(so.position.maxVelocityY)
                             THEN so.position.maxVelocityY.v ELSE @]

InitScaleXY(p, so, rnd) ==
    [p EXCEPT !.scaleX = Sample(so, rnd, "scaleX"), !.scaleY = Sample(so, rnd, "scaleY")]

InitScaleVelocity(p, so, rnd) ==
    IF Truthy(so.scale.velocity)
    THEN [p EXCEPT !.scaleVelocityX = Sample(so, rnd, "scaleVelocity"),
                   !.scaleVelocityY = Sample(so, rnd, "scaleVelocity")]
    ELSE [p EXCEPT
            !.scaleVelocityX = IF Truthy(so.scale.velocityX)
                               THEN Sample(so, rnd, "scaleVelocityX") ELSE @,
            !.scaleVelocityY = IF Truthy(so.scale.velocityY)
                               THEN Sample(so, rnd, "scaleVelocityY") ELSE @]

InitScaleAcceleration(p, so, rnd) ==
    IF Truthy(so.scale.acceleration)
    THEN [p EXCEPT !.scaleAccelerationX = Sample(so, rnd, "scaleAcceleration"),
                   !.scaleAccelerationY = Sample(so, rnd, "scaleAcceleration")]
    ELSE [p EXCEPT
            !.scaleAccelerationX = IF Truthy(so.scale.accelerationX)
                                   THEN Sample(so, rnd, "scaleAccelerationX") ELSE @,
            !.scaleAccelerationY = IF Truthy(so.scale.accelerationY)
                                   THEN Sample(so, rnd, "scaleAccelerationY") ELSE @]

InitMaxScaleVelocity(p, so) ==
    IF Truthy(so.scale.maxVelocity)
    THEN [p EXCEPT !.maxScaleVelocityX = so.scale.maxVelocity.v,
                   !.maxScaleVelocityY = so.scale.maxVelocity.v]
    ELSE [p EXCEPT
            !.maxScaleVelocityX = IF Truthy(so.scale.maxVelocityX)
                                  THEN so.scale.maxVelocityX.v ELSE @,
            !.maxScaleVelocityY = IF Truthy(so.scale.maxVelocityY)
                                  THEN so.scale.maxVelocityY.v ELSE @]

\* The scale given as a number or a range, as {start, end}, or as a vector.
InitScaleValue(p, so, rnd) ==
    CASE so.scale.t \in {"range", "num"} ->
           [p EXCEPT !.scaleX = Sample(so, rnd, "scale"),
                     !.scaleY = Sample(so, rnd, "scale")]
      [] so.scale.t = "startEnd" ->
           [p EXCEPT !.scaleStart = Sample(so, rnd, "scaleStart"),
                     !.scaleEnd = Sample(so, rnd, "scaleEnd"),
                     !.scaleX = Sample(so, rnd, "scaleStart"),
                     !.scaleY = Sample(so, rnd, "scaleStart")]
      [] so.scale.t = "vec2" ->
           InitMaxScaleVelocity(
               InitScaleAcceleration(
                   InitScaleVelocity(InitScaleXY(p, so, rnd), so, rnd), so, rnd), so)
      [] OTHER -> p

InitScale(p, so, rnd) ==
    IF Truthy(so.scale) THEN UpdateSurfaceFactor(InitScaleValue(p, so, rnd)) ELSE p

InitRotation(p, so, rnd) ==
    IF ~Truthy(so.rotation) THEN p
    ELSE [p EXCEPT
            !.rotation = Sample(so, rnd, "rotation"),
            !.rotationVelocity = IF Truthy(so.rotation.velocity)
                                 THEN Sample(so, rnd, "rotationVelocity") ELSE @,
            !.rotationAcceleration = IF Truthy(so.rotation.acceleration)
                                     THEN Sample(so, rnd, "rotationAcceleration") ELSE @,
            !.maxRotationVelocity = IF Truthy(so.rotation.maxVelocity)
                                    THEN so.rotation.maxVelocity.v ELSE @]

InitAlpha(p, so, rnd) ==
    IF ~Truthy(so.alpha) THEN p
    ELSE IF so.alpha.t = "fn" THEN [p EXCEPT !.alphaGetter = so.alpha.name]
    ELSE [p EXCEPT !.alphaStart = Sample(so, rnd, "alphaStart"),
                   !.alphaEnd = Sample(so, rnd, "alphaEnd"),
                   !.alpha = IF Gt(Sample(so, rnd, "alphaStart"), I(-1))
                             THEN Sample(so, rnd, "alphaStart") ELSE @]

InitColor(p, so, rnd) ==
    IF ~Truthy(so.color) THEN p
    ELSE CASE so.color.t = "fn" -> [p EXCEPT !.colorGetter = so.color.name]
           [] so.color.t = "array" ->
                [p EXCEPT !.tint =
                    so.color.vals[FloorInt(Mul(p.seed, I(Len(so.color.vals)))) + 1]]
           [] so.color.t = "num" -> [p EXCEPT !.tint = so.color.v]
           [] so.color.t = "startEnd" /\ Truthy(so.color.start) /\ Truthy(so.color.end) ->
                [p EXCEPT !.colorStart = Sample(so, rnd, "colorStart"),
                          !.colorEnd = Sample(so, rnd, "colorEnd"),
                          !.tint = ChannelsToNumber(
                                      ColorChannels(Sample(so, rnd, "colorStart")))]
           [] OTHER -> p

InitLifespan(p, so, rnd) ==
    [p EXCEPT !.lifespan = IF Truthy(so.lifespan) THEN Sample(so, rnd, "lifespan") ELSE Inf,
              !.currentLife = Zero]

InitOnInit(p, so, contentFrame) ==
    IF Truthy(so.onInit) THEN ApplyOnInit(so.onInit.name, p, contentFrame) ELSE p

\* The "created" state captured after onInit.
InitSnapshot(p) ==
    [p EXCEPT !.initAlpha = p.alpha, !.initX = p.x, !.initY = p.y,
              !.initVelocityX = p.velocityX, !.initVelocityY = p.velocityY,
              !.initScaleX = p.scaleX, !.initScaleY = p.scaleY,
              !.initRotation = p.rotation,
              !.initRotationVelocity = p.rotationVelocity]

InitOnUpdate(p, so) ==
    IF Truthy(so.onUpdate) THEN [p EXCEPT !.onUpdate = so.onUpdate.name] ELSE p

\* The first steps of init: reset, then the seed and the position.
InitStart(p, so, seed, rnd) ==
    InitMaxVelocity(
        InitAcceleration(
            InitVelocity(InitXY([Reset(p) EXCEPT !.seed = seed], so, rnd), so, rnd),
            so, rnd),
        so)

InitParticle(p, data, seed, rnd) ==
    InitOnUpdate(
        InitSnapshot(
            UpdateSurfaceFactor(
                InitOnInit(
                    InitLifespan(
                        InitColor(
                            InitAlpha(
                                InitRotation(
                                    InitScale(
                                        InitStart(p, data.spawnOptions, seed, rnd),
                                        data.spawnOptions, rnd),
                                    data.spawnOptions, rnd),
                                data.spawnOptions, rnd),
                            data.spawnOptions, rnd),
                        data.spawnOptions, rnd),
                    data.spawnOptions, data.contentFrame))),
        data.spawnOptions)

(***************************************************************************)
(* ParticleItem.updatePhysics, one operator per step.                      *)
(***************************************************************************)
\* The fraction of its life the particle has lived: 0 for a lifespan that is
\* infinite or not positive.
LifePercent(p) ==
    IF Gt(p.lifespan, Zero) /\ p.lifespan # Inf
    THEN Min(Div(p.currentLife, p.lifespan), One)
    ELSE Zero

\* start + (end - start) * lifePercent
Lerp(start, end, lifePercent) == Add(start, Mul(Sub(end, start), lifePercent))

AdvanceLife(p, elapsedSec) == [p EXCEPT !.currentLife = Add(@, elapsedSec)]

UpdatePosition(p, elapsedSec) ==
    [p EXCEPT !.x = Add(p.x, Mul(p.velocityX, elapsedSec)),
              !.y = Add(p.y, Mul(p.velocityY, elapsedSec)),
              !.velocityX = Add(p.velocityX, Mul(p.accelerationX, elapsedSec)),
              !.velocityY = Add(p.velocityY, Mul(p.accelerationY, elapsedSec))]

UpdateScale(p, elapsedSec) ==
    UpdateSurfaceFactor(
        IF p.scaleStart # NoValue /\ p.scaleEnd # NoValue
        THEN [p EXCEPT !.scaleX = Lerp(p.scaleStart, p.scaleEnd, LifePercent(p)),
                       !.scaleY = Lerp(p.scaleStart, p.scaleEnd, LifePercent(p))]
        ELSE [p EXCEPT
                !.scaleX = Add(p.scaleX, Mul(p.scaleVelocityX, elapsedSec)),
                !.scaleY = Add(p.scaleY, Mul(p.scaleVelocityY, elapsedSec)),
                !.scaleVelocityX = Add(p.scaleVelocityX, Mul(p.scaleAccelerationX, elapsedSec)),
                !.scaleVelocityY = Add(p.scaleVelocityY, Mul(p.scaleAccelerationY, elapsedSec))])

UpdateRotation(p, elapsedSec) ==
    [p EXCEPT !.rotation = Add(p.rotation, Mul(p.rotationVelocity, elapsedSec)),
              !.rotationVelocity = Add(p.rotationVelocity,
                                       Mul(p.rotationAcceleration, elapsedSec))]

UpdateAlpha(p, elapsedMS) ==
    IF p.alphaGetter # NoHook
    THEN [p EXCEPT !.alpha = AlphaGetterValue(p.alphaGetter, p, elapsedMS)]
    ELSE IF Gt(p.alphaStart, I(-1)) /\ Gt(p.alphaEnd, I(-1))
    THEN [p EXCEPT !.alpha = Lerp(p.alphaStart, p.alphaEnd, LifePercent(p))]
    ELSE p

\* The four channels of the colour between colorStart and colorEnd.
ColorTransition(c0, c1, lifePercent) ==
    [k \in 1..4 |-> Lerp(c0[k], c1[k], lifePercent)]

UpdateColor(p, elapsedMS) ==
    IF p.colorGetter # NoHook
    THEN [p EXCEPT !.tint =
            ChannelsToNumber(ColorChannels(ColorGetterValue(p.colorGetter, p, elapsedMS)))]
    ELSE IF p.colorStart # NoValue /\ p.colorEnd # NoValue
    THEN [p EXCEPT !.tint =
            ChannelsToNumber(ColorTransition(ColorChannels(p.colorStart),
                                             ColorChannels(p.colorEnd), LifePercent(p)))]
    ELSE p

\* Max velocities: clamp by magnitude.
ClampVelocities(p) ==
    [p EXCEPT !.velocityX = ClampAbs(p.velocityX, p.maxVelocityX),
              !.velocityY = ClampAbs(p.velocityY, p.maxVelocityY),
              !.scaleVelocityX = ClampAbs(p.scaleVelocityX, p.maxScaleVelocityX),
              !.scaleVelocityY = ClampAbs(p.scaleVelocityY, p.maxScaleVelocityY),
              !.rotationVelocity = ClampAbs(p.rotationVelocity, p.maxRotationVelocity)]

RunOnUpdate(p, elapsedMS, contentFrame) ==
    IF p.onUpdate # NoHook THEN ApplyOnUpdate(p.onUpdate, p, elapsedMS, contentFrame) ELSE p

\* The steps of updatePhysics before the clamp, for elapsedSec = elapsedMS / 1000.
Integrate(p, elapsedMS, elapsedSec) ==
    UpdateColor(
        UpdateAlpha(
            UpdateRotation(
                UpdateScale(
                    UpdatePosition(AdvanceLife(p, elapsedSec), elapsedSec),
                    elapsedSec),
                elapsedSec),
            elapsedMS),
        elapsedMS)

UpdatePhysics(p, elapsedMS, contentFrame) ==
    RunOnUpdate(ClampVelocities(Integrate(p, elapsedMS, Div(elapsedMS, I(1000)))),
                elapsedMS, contentFrame)

(***************************************************************************)
(* The world the operations act on:                                        *)
(*   particles  every ParticleItem constructed so far, by instance number  *)
(*   pool       the ParticlePool: _items (instance numbers, last is the    *)
(*              top), _createdCount, maxPoolSize                           *)
(*   children   the emitter's display list (instance numbers)              *)
(*   options    the ParticleEmitterOptions given to the constructor        *)
(*   em         the emitter's own fields                                   *)
(*   listeners  how often the ticker holds the emitter's updateEmitter     *)
(*   rng        the values Math.random will return to the next inits       *)
(*   got        the item the last pool call returned (NoItem: undefined)   *)
(*   handed     the instances get has returned so far                      *)
(***************************************************************************)
NoItem == 0

\* The random values one init consumes: the seed and one value per place.
NoDraw == [seed |-> Zero, rnd |-> <<>>]

NextDraw(w) == IF w.rng = <<>> THEN NoDraw ELSE Head(w.rng)

RestDraws(w) == IF w.rng = <<>> THEN <<>> ELSE Tail(w.rng)

\* ParticlePool._getNewItem: the new instance is the last of w.particles.
GetNewItem(w) ==
    [w EXCEPT !.pool.createdCount = @ + 1,
              !.particles = Append(@, NewParticle),
              !.got = Len(w.particles) + 1]

\* this._items.shift(): the oldest item of the free list instead of the newest.
ShiftItem(w) ==
    [w EXCEPT !.got = w.pool.items[1],
              !.pool.items = SubSeq(@, 2, Len(@))]

\* this._items.pop()
PopItem(w) ==
    [w EXCEPT !.got = w.pool.items[Len(w.pool.items)],
              !.pool.items = SubSeq(@, 1, Len(@) - 1)]

\* item.inPool = false; item.init(data)
InitItem(w, data) ==
    [w EXCEPT !.particles[w.got] =
                 InitParticle([@ EXCEPT !.inPool = FALSE], data,
                              NextDraw(w).seed, NextDraw(w).rnd),
              !.rng = RestDraws(w),
              !.handed = @ \cup {w.got}]

\* get without its createdCount < maxPoolSize test.
PoolGetUncapped(w, data) ==
    IF Len(w.pool.items) > 0 THEN InitItem(PopItem(w), data)
    ELSE InitItem(GetNewItem(w), data)

\* ParticlePool.get: the world after the call; w.got is the item returned.
PoolGet(w, data) ==
    IF Len(w.pool.items) > 0
    THEN InitItem(PopItem(w), data)
    ELSE IF Lt(I(w.pool.createdCount), w.pool.maxPoolSize)
    THEN InitItem(GetNewItem(w), data)
    ELSE [w EXCEPT !.got = NoItem]

\* item.inPool = true; item.reset(); this._items.push(item)
PushItem(w, id) ==
    [w EXCEPT !.particles[id] = Reset([@ EXCEPT !.inPool = TRUE]),
              !.pool.items = Append(@, id)]

\* return without its inPool guard.
PoolReturnUnguarded(w, id) == PushItem(w, id)

\* ParticlePool.return
PoolReturn(w, id) == IF w.particles[id].inPool THEN w ELSE PushItem(w, id)

\* The body of prepopulate's loop.
PushNewItem(w) == PushItem(w, w.got)

\* ParticlePool.prepopulate
RECURSIVE Prepopulate(_, _)
Prepopulate(w, count) ==
    IF count <= 0 THEN w ELSE Prepopulate(PushNewItem(GetNewItem(w)), count - 1)

\* ParticlePool.clear
PoolClear(w) ==
    [w EXCEPT !.particles = [id \in DOMAIN @ |->
                                IF \E k \in DOMAIN w.pool.items : w.pool.items[k] = id
                                THEN Reset(@[id]) ELSE @[id]],
              !.pool.items = <<>>]

\* destroy without its this._items.length = 0.
PoolDestroyKeepsItems(w) ==
    [w EXCEPT !.particles = [id \in DOMAIN @ |->
                                IF \E k \in DOMAIN w.pool.items : w.pool.items[k] = id
                                THEN [@[id] EXCEPT !.destroyed = TRUE] ELSE @[id]],
              !.pool.createdCount = 0]

\* ParticlePool.destroy
PoolDestroy(w) ==
    [w EXCEPT !.particles = [id \in DOMAIN @ |->
                                IF \E k \in DOMAIN w.pool.items : w.pool.items[k] = id
                                THEN [@[id] EXCEPT !.destroyed = TRUE] ELSE @[id]],
              !.pool.items = <<>>,
              !.pool.createdCount = 0]

\* The fields of a ParticlePool after the first line of its constructor.
EmptyPool(maxPoolSize) ==
    [items |-> <<>>, createdCount |-> 0, maxPoolSize |-> OrElse(maxPoolSize, Inf)]

\* new ParticlePool(ClassType, initialSize, maxPoolSize), in a world that has
\* no pool yet.
NewPool(w, initialSize, maxPoolSize) ==
    IF Truthy(initialSize) /\ Gt(initialSize.v, Zero)
    THEN Prepopulate([w EXCEPT !.pool = EmptyPool(maxPoolSize)], FloorInt(initialSize.v))
    ELSE [w EXCEPT !.pool = EmptyPool(maxPoolSize)]

\* ParticlePool.totalSize, totalFree, totalUsed
TotalSize(w) == w.pool.createdCount

TotalFree(w) == Len(w.pool.items)

TotalUsed(w) == w.pool.createdCount - Len(w.pool.items)

(***************************************************************************)
(* ParticleEmitter                                                         *)
(***************************************************************************)
\* The field initialisers of the class.  _spawnOptions and _updateOptions are
\* the options' own, which never change: the world holds them as w.options.
NewEmitter ==
    [clockConnected |-> FALSE, contentFrame |-> Null,
     updateElapsed |-> Zero, spawnElapsed |-> Zero, spawnInterval |-> Zero,
     spawnRate |-> Zero, spawnRateVelocity |-> Zero, spawnRateAcceleration |-> Zero,
     spawnRateMaxVelocity |-> I(-1), spawnDurationElapsed |-> Zero,
     isRunning |-> FALSE, isPaused |-> FALSE,
     spawnDuration |-> Zero, spawn |-> FALSE, destroyed |-> FALSE,
     environment |-> [affectSurface |-> FALSE, gravity |-> Zero, airResistance |-> Zero,
                      windX |-> Zero, windY |-> Zero]]

\* _recalcSpawnInterval
RecalcSpawnInterval(e) ==
    [e EXCEPT !.spawnInterval = IF Gt(Max(e.spawnRate, Zero), Zero)
                                THEN Div(I(1000), Max(e.spawnRate, Zero))
                                ELSE Zero]

\* _updateSpawnRate: the velocity gains the acceleration,
AccelerateSpawnRate(e, elapsedSec) ==
    IF TruthyNum(e.spawnRateAcceleration)
    THEN [e EXCEPT !.spawnRateVelocity = Add(@, Mul(e.spawnRateAcceleration, elapsedSec))]
    ELSE e

\* is clamped by magnitude,
ClampSpawnRateVelocity(e) ==
    IF Ge(e.spawnRateMaxVelocity, Zero)
    THEN [e EXCEPT !.spawnRateVelocity =
                      Max(Neg(e.spawnRateMaxVelocity), Min(e.spawnRateMaxVelocity, @))]
    ELSE e

\* and the rate gains the velocity, never falling below 0.
IntegrateSpawnRate(e, elapsedSec) ==
    IF TruthyNum(e.spawnRateVelocity)
    THEN [e EXCEPT !.spawnRate =
            IF Lt(Add(@, Mul(e.spawnRateVelocity, elapsedSec)), Zero) THEN Zero
            ELSE Add(@, Mul(e.spawnRateVelocity, elapsedSec))]
    ELSE e

UpdateSpawnRate(e, elapsedMS) ==
    RecalcSpawnInterval(
        IntegrateSpawnRate(
            ClampSpawnRateVelocity(AccelerateSpawnRate(e, Div(elapsedMS, I(1000)))),
            Div(elapsedMS, I(1000))))

\* The init data _spawnParticle hands to the pool.
InitData(w) ==
    [spawnOptions |-> w.options.spawnOptions, contentFrame |-> w.em.contentFrame]

\* addChild of what the pool returned, unless it returned undefined.
AddChild(w) == IF w.got # NoItem THEN [w EXCEPT !.children = Append(@, w.got)] ELSE w

\* _spawnParticle
SpawnParticle(w) == AddChild(PoolGet(w, InitData(w)))

\* for (let i = 0; i < numSpawns; i++) this._spawnParticle(): the first half
\* of the calls, then the rest.  (The test on w.got is never true: it has the
\* world computed before the next step.)
RECURSIVE SpawnParticles(_, _)
SpawnParticles(w, numSpawns) ==
    IF numSpawns <= 0 \/ w.got < NoItem THEN w
    ELSE IF numSpawns = 1 THEN SpawnParticle(w)
    ELSE SpawnParticles(SpawnParticles(w, numSpawns \div 2), numSpawns - numSpawns \div 2)

\* Math.floor(_spawnElapsed / _spawnInterval)
NumSpawns(e) == FloorInt(Div(e.spawnElapsed, e.spawnInterval))

\* _spawn, were it to clear the accumulator instead of keeping the remainder.
ClearSpawnElapsed(w) == [w EXCEPT !.em.spawnElapsed = Zero]

\* this._spawnElapsed = this._spawnElapsed % this._spawnInterval
WrapSpawnElapsed(w) == [w EXCEPT !.em.spawnElapsed = Mod(@, w.em.spawnInterval)]

\* _spawn, were it to reduce the accumulator only by the spawns the pool served.
CarryRefused(w, after) ==
    [after EXCEPT !.em.spawnElapsed =
        Sub(@, Mul(I(Len(after.children) - Len(w.children)), w.em.spawnInterval))]

SpawnDueCarrying(w) ==
    IF Lt(w.em.spawnElapsed, w.em.spawnInterval) THEN w
    ELSE IF NumSpawns(w.em) <= 0 THEN w
    ELSE CarryRefused(w, SpawnParticles(w, NumSpawns(w.em)))

\* _spawn once _spawnElapsed has gained the elapsed time.
SpawnDue(w) ==
    IF Lt(w.em.spawnElapsed, w.em.spawnInterval) THEN w
    ELSE IF NumSpawns(w.em) <= 0 THEN w
    ELSE WrapSpawnElapsed(SpawnParticles(w, NumSpawns(w.em)))

\* _spawn
Spawn(w, elapsedMS) ==
    IF ~w.em.spawn \/ ~TruthyNum(w.em.spawnInterval) THEN w
    ELSE SpawnDue([w EXCEPT !.em.spawnElapsed = Add(@, elapsedMS)])

\* removeChild
RemoveChild(w, id) == [w EXCEPT !.children = SelectSeq(@, LAMBDA c : c # id)]

\* _killParticle without its removeChild.
KillParticleKeepsChild(w, id) == PoolReturn(w, id)

\* _killParticle without its return to the pool.
KillParticleKeepsItem(w, id) == RemoveChild(w, id)

\* _killParticle
KillParticle(w, id) == PoolReturn(RemoveChild(w, id), id)

\* isPhysicsAffectedByParticleSurface
IsPhysicsAffectedByParticleSurface(env) ==
    env.affectSurface
        /\ (TruthyNum(env.windX) \/ TruthyNum(env.windY) \/ TruthyNum(env.airResistance))

\* const particleSurface = this.isPhysicsAffectedByParticleSurface ? ... : 1
ParticleSurface(env, p) ==
    IF IsPhysicsAffectedByParticleSurface(env) THEN p.surfaceFactor ELSE One

\* (elapsedSec * particleSurface * airResistance * absVel) / mass
Reduction(velocity, elapsedSec, particleSurface, airResistance, mass) ==
    Div(Mul(Mul(Mul(elapsedSec, particleSurface), airResistance), Abs(velocity)), mass)

\* The air resistance on one axis of the velocity.
AirResistance(velocity, elapsedSec, particleSurface, airResistance, mass) ==
    IF IsZero(velocity) THEN velocity
    ELSE IF Gt(Abs(velocity),
               Reduction(velocity, elapsedSec, particleSurface, airResistance, mass))
    THEN Mul(Sign(velocity),
             Sub(Abs(velocity),
                 Reduction(velocity, elapsedSec, particleSurface, airResistance, mass)))
    ELSE Zero

\* const mass = particle.mass || 1
MassOf(p) == IF TruthyNum(p.mass) THEN p.mass ELSE One

\* _applyEnvironment's gravity step, were gravity a force on the mass.
ApplyGravityByMass(env, p, elapsedSec) ==
    IF TruthyNum(env.gravity)
    THEN [p EXCEPT !.velocityY = Add(@, Div(Mul(env.gravity, elapsedSec), MassOf(p)))]
    ELSE p

ApplyGravity(env, p, elapsedSec) ==
    IF TruthyNum(env.gravity)
    THEN [p EXCEPT !.velocityY = Add(@, Mul(env.gravity, elapsedSec))]
    ELSE p

ApplyAirResistance(env, p, elapsedSec, particleSurface) ==
    IF TruthyNum(env.airResistance) /\ (TruthyNum(p.velocityX) \/ TruthyNum(p.velocityY))
    THEN [p EXCEPT
            !.velocityX = AirResistance(@, elapsedSec, particleSurface,
                                        env.airResistance, MassOf(p)),
            !.velocityY = AirResistance(@, elapsedSec, particleSurface,
                                        env.airResistance, MassOf(p))]
    ELSE p

ApplyWind(env, p, elapsedSec, particleSurface) ==
    [p EXCEPT
       !.velocityX = IF TruthyNum(env.windX)
                     THEN Add(@, Mul(Mul(env.windX, particleSurface), elapsedSec)) ELSE @,
       !.velocityY = IF TruthyNum(env.windY)
                     THEN Add(@, Mul(Mul(env.windY, particleSurface), elapsedSec)) ELSE @]

\* _applyEnvironment, given elapsedSec and particleSurface.
ApplyForces(env, p, elapsedSec, particleSurface) ==
    ApplyWind(env,
              ApplyAirResistance(env, ApplyGravity(env, p, elapsedSec),
                                 elapsedSec, particleSurface),
              elapsedSec, particleSurface)

\* _applyEnvironment
ApplyEnvironment(env, p, elapsedMS) ==
    ApplyForces(env, p, Div(elapsedMS, I(1000)), ParticleSurface(env, p))

\* _startUpdate
StartUpdate(w) ==
    IF w.em.clockConnected THEN w
    ELSE [w EXCEPT !.em.clockConnected = TRUE, !.listeners = @ + 1]

\* _stopUpdate without its ticker.remove.
StopUpdateKeepsListener(w) ==
    IF ~w.em.clockConnected THEN w ELSE [w EXCEPT !.em.clockConnected = FALSE]

\* _stopUpdate: the ticker drops every listener that is this updateEmitter.
StopUpdate(w) ==
    IF ~w.em.clockConnected THEN w
    ELSE [w EXCEPT !.em.clockConnected = FALSE, !.listeners = 0]

\* The particle's box: left, top, right, bottom.
Left(p) == Sub(p.x, Mul(Width(p), p.anchorX))

Top(p) == Sub(p.y, Mul(Height(p), p.anchorY))

\* isOutOfBounds with the particle's position for its box.
IsOutOfBoundsByPosition(frame, p) ==
    IF ~Truthy(frame) THEN FALSE
    ELSE \/ Lt(p.x, frame.x)
         \/ Gt(p.x, Add(frame.x, frame.width))
         \/ Lt(p.y, frame.y)
         \/ Gt(p.y, Add(frame.y, frame.height))

\* isOutOfBounds with <= for < and >= for >.
IsOutOfBoundsOrTouching(frame, p) ==
    IF ~Truthy(frame) THEN FALSE
    ELSE \/ Le(Add(Left(p), Width(p)), frame.x)
         \/ Ge(Left(p), Add(frame.x, frame.width))
         \/ Le(Add(Top(p), Height(p)), frame.y)
         \/ Ge(Top(p), Add(frame.y, frame.height))

\* isOutOfBounds
IsOutOfBounds(frame, p) ==
    IF ~Truthy(frame) THEN FALSE
    ELSE \/ Lt(Add(Left(p), Width(p)), frame.x)
         \/ Gt(Left(p), Add(frame.x, frame.width))
         \/ Lt(Add(Top(p), Height(p)), frame.y)
         \/ Gt(Top(p), Add(frame.y, frame.height))

\* updateSpawnDuration
UpdateSpawnDuration(e, elapsedMS) ==
    IF ~e.spawn \/ Le(e.spawnDuration, Zero) THEN e
    ELSE IF Lt(Add(e.spawnDurationElapsed, elapsedMS), e.spawnDuration)
    THEN [e EXCEPT !.spawnDurationElapsed = Add(@, elapsedMS)]
    ELSE [e EXCEPT !.spawnDurationElapsed = Zero, !.spawn = FALSE]

\* The loop's test with > for >=.
IsDeadPastLifespan(w, p) ==
    Gt(p.currentLife, p.lifespan) \/ IsOutOfBounds(w.em.contentFrame, p)

\* The loop's test with any age for the lifespan.
IsDeadOnceAged(w, p) ==
    Gt(p.currentLife, Zero) \/ IsOutOfBounds(w.em.contentFrame, p)

\* Whether updateEmitter recycles this particle instead of advancing it.
IsDead(w, p) == Ge(p.currentLife, p.lifespan) \/ IsOutOfBounds(w.em.contentFrame, p)

\* _applyEnvironment and updatePhysics of one live particle.
AdvanceParticle(w, id) ==
    [w EXCEPT !.particles[id] =
        UpdatePhysics(ApplyEnvironment(w.em.environment, @, w.em.updateElapsed),
                      w.em.updateElapsed, w.em.contentFrame)]

\* The body of updateEmitter's loop.
UpdateChild(w, id) ==
    IF IsDead(w, w.particles[id]) THEN KillParticle(w, id) ELSE AdvanceParticle(w, id)

\* updateEmitter's loop over the children, from index i down to index first:
\* the upper half of the indices, then the lower.  (Recycling a child moves
\* only the children after it, which the loop has already passed.  The test
\* on w.got is never true: it has the world computed before the next step.)
RECURSIVE UpdateChildren(_, _, _)
UpdateChildren(w, first, i) ==
    IF i < first \/ w.got < NoItem THEN w
    ELSE IF i = first THEN UpdateChild(w, w.children[i])
    ELSE UpdateChildren(UpdateChildren(w, (first + i) \div 2 + 1, i),
                        first, (first + i) \div 2)

\* updateEmitter's loop, were it to run from the first child to the last: the
\* child that moves into the place of a recycled one is passed over.
RECURSIVE ForwardChildren(_, _)
ForwardChildren(w, i) ==
    IF i > Len(w.children) THEN w
    ELSE ForwardChildren(UpdateChild(w, w.children[i]), i + 1)

ChildrenStepForward(w) == ForwardChildren(w, 1)

\* The steps of updateEmitter past its gate, each on the world the previous
\* one left.
RateStep(w) == [w EXCEPT !.em = UpdateSpawnRate(@, w.em.updateElapsed)]

SpawnStep(w) == Spawn(w, w.em.updateElapsed)

DurationStep(w, elapsedMS) == [w EXCEPT !.em = UpdateSpawnDuration(@, elapsedMS)]

ChildrenStep(w) == UpdateChildren(w, 1, Len(w.children))

RunUpdate(w, elapsedMS) ==
    [ChildrenStep(DurationStep(SpawnStep(RateStep(w)), elapsedMS))
        EXCEPT !.em.updateElapsed = Zero]

\* updateEmitter without its test against the interval.
UpdateUngated(w, elapsedMS) == RunUpdate(w, elapsedMS)

\* updateEmitter once _updateElapsed has gained the clock's deltaMS.
UpdateGated(w, elapsedMS) ==
    IF Lt(w.em.updateElapsed, w.options.updateOptions.interval) THEN w
    ELSE RunUpdate(w, elapsedMS)

\* updateEmitter, called by the ticker with its deltaMS.
UpdateEmitter(w, deltaMS) ==
    UpdateGated([w EXCEPT !.em.updateElapsed = Add(@, deltaMS)], deltaMS)

\* start without its this._spawnElapsed = this._spawnInterval.
StartUnprimed(w, emit) ==
    IF w.em.isRunning THEN w
    ELSE [StartUpdate([w EXCEPT !.em.spawn = emit]) EXCEPT !.em.isRunning = TRUE]

\* start
Start(w, emit) ==
    IF w.em.isRunning THEN w
    ELSE [StartUpdate([w EXCEPT !.em.spawn = emit,
                                !.em.spawnElapsed = w.em.spawnInterval])
             EXCEPT !.em.isRunning = TRUE]

\* pause without its guard.
PauseUnguarded(w) == StopUpdate([w EXCEPT !.em.isPaused = TRUE])

\* pause
Pause(w) ==
    IF ~w.em.isRunning \/ w.em.isPaused THEN w
    ELSE StopUpdate([w EXCEPT !.em.isPaused = TRUE])

\* resume
Resume(w) ==
    IF ~w.em.isRunning \/ ~w.em.isPaused THEN w
    ELSE StartUpdate([w EXCEPT !.em.isPaused = FALSE])

\* ids.forEach((id) => pool.return(id)): the first half of ids, then the rest.
\* (The test on w.got is never true: it has the world computed before the next
\* step.)
RECURSIVE ReturnAll(_, _)
ReturnAll(w, ids) ==
    IF ids = <<>> \/ w.got < NoItem THEN w
    ELSE IF Len(ids) = 1 THEN PoolReturn(w, ids[1])
    ELSE ReturnAll(ReturnAll(w, SubSeq(ids, 1, Len(ids) \div 2)),
                   SubSeq(ids, Len(ids) \div 2 + 1, Len(ids)))

\* The emitter's own fields after reset; rate is updateOptions.spawnRate and rr
\* holds the values Math.random returns for its value, velocity and
\* acceleration.
ResetFields(e, rate, rr) ==
    [RecalcSpawnInterval(
        [e EXCEPT
           !.isRunning = FALSE, !.isPaused = FALSE, !.spawn = FALSE,
           !.updateElapsed = Zero, !.spawnElapsed = Zero,
           !.spawnRate = RandomFromRange(rate.value, rr.value),
           !.spawnRateVelocity =
               IF Truthy(rate.velocity)
               THEN RandomFromRange(rate.velocity, rr.velocity) ELSE Zero,
           !.spawnRateAcceleration =
               IF Truthy(rate.acceleration)
               THEN RandomFromRange(rate.acceleration, rr.acceleration) ELSE Zero,
           !.spawnRateMaxVelocity = OrElse(rate.maxVelocity, I(-1))])
       EXCEPT !.spawnDurationElapsed = Zero]

\* reset's removeChildren without the return of each child.
RemoveChildren(w) == [w EXCEPT !.children = <<>>]

\* children.forEach(return); removeChildren
ReturnChildren(w) == [ReturnAll(w, w.children) EXCEPT !.children = <<>>]

\* reset
ResetEmitter(w, rr) ==
    ReturnChildren([w EXCEPT !.em = ResetFields(@, w.options.updateOptions.spawnRate, rr)])

\* stop without its _stopUpdate.
StopKeepsClock(w, rr) == IF ~w.em.isRunning THEN w ELSE ResetEmitter(w, rr)

\* stop
Stop(w, rr) ==
    IF ~w.em.isRunning THEN w ELSE StopUpdate(ResetEmitter(w, rr))

\* super.destroy(options): the container drops its children, and destroys them
\* when options.children is set; a container already destroyed does nothing.
DestroyContainer(w, destroyChildren) ==
    IF w.em.destroyed THEN w
    ELSE [w EXCEPT !.em.destroyed = TRUE,
                   !.children = <<>>,
                   !.particles = [id \in DOMAIN @ |->
                                     IF destroyChildren
                                        /\ \E k \in DOMAIN w.children : w.children[k] = id
                                     THEN [@[id] EXCEPT !.destroyed = TRUE] ELSE @[id]]]

\* destroy without its _pool.destroy.
DestroyKeepsPool(w, destroyChildren) == DestroyContainer(StopUpdate(w), destroyChildren)

\* destroy
Destroy(w, destroyChildren) ==
    DestroyContainer(PoolDestroy(StopUpdate(w)), destroyChildren)

\* The constructor's test with "is undefined" for "is falsy".
IsMisconfiguredWhenAbsent(opts) ==
    opts.spawnOptions.lifespan = Null /\ opts.contentFrame = Null

\* Whether the constructor throws for these options.
IsMisconfigured(opts) ==
    ~Truthy(opts.spawnOptions.lifespan) /\ ~Truthy(opts.contentFrame)

\* The world before the constructor's body runs.
BlankWorld(opts) ==
    [options |-> opts, particles |-> <<>>,
     pool |-> [items |-> <<>>, createdCount |-> 0, maxPoolSize |-> Inf],
     children |-> <<>>, em |-> NewEmitter, listeners |-> 0, rng |-> <<>>,
     got |-> NoItem, handed |-> {}]

SetContentFrame(w) ==
    IF Truthy(w.options.contentFrame)
    THEN [w EXCEPT !.em.contentFrame = w.options.contentFrame] ELSE w

\* The environment the constructor copies from the options.
EnvironmentOf(env) ==
    [gravity |-> OrFalsy(env.gravity, Zero),
     airResistance |-> OrFalsy(env.airResistance, Zero),
     windX |-> OrFalsy(env.windX, Zero),
     windY |-> OrFalsy(env.windY, Zero),
     affectSurface |-> env.affectSurface]

SetEnvironment(w) ==
    IF Truthy(w.options.updateOptions.environment)
    THEN [w EXCEPT !.em.environment = EnvironmentOf(w.options.updateOptions.environment)]
    ELSE w

SetSpawnDuration(w) ==
    IF Truthy(w.options.updateOptions.spawnDuration)
    THEN [w EXCEPT !.em.spawnDuration = w.options.updateOptions.spawnDuration.v]
    ELSE w

\* The constructor, for options it accepts.
Construct(opts, rr) ==
    ResetEmitter(
        SetSpawnDuration(
            SetEnvironment(
                SetContentFrame(
                    NewPool(BlankWorld(opts), opts.initialSize, opts.maxParticles)))),
        rr)

(***************************************************************************)
(* The configurations and inputs the model draws from.                     *)
(***************************************************************************)
\* The deltaMS values the clock delivers: one or two steps.
ClockStep == 50

Deltas == {ClockStep, 2 * ClockStep}

NoEnvironment == Null

Environment(gravity, airResistance, windX, affectSurface) ==
    [t |-> "env", gravity |-> gravity, airResistance |-> airResistance,
     windX |-> windX, windY |-> Null, affectSurface |-> affectSurface]

SpawnOptions(position, lifespan, onUpdate) ==
    [position |-> position, scale |-> Null, rotation |-> Null, alpha |-> Null,
     color |-> Null, onInit |-> Null, onUpdate |-> onUpdate, lifespan |-> lifespan]

UpdateOptions(value, interval, environment, spawnDuration) ==
    [spawnRate |-> Vector1(value, Null, Null, Null), interval |-> interval,
     environment |-> environment, spawnDuration |-> spawnDuration]

EmitterOptions(initialSize, maxParticles, spawnOptions, updateOptions, contentFrame) ==
    [initialSize |-> initialSize, maxParticles |-> maxParticles,
     spawnOptions |-> spawnOptions, updateOptions |-> updateOptions,
     contentFrame |-> contentFrame]

\* Particles that start at the origin and move right at 400 px/s.
MovingRight == [Vector2(Num(Zero), Num(Zero)) EXCEPT !.velocityX = Num(I(400))]

Frame == Rectangle(Zero, Zero, I(50), I(50))

\* Ten particles a second, evaluated every 100 ms.
Steady == UpdateOptions(Num(I(10)), I(100), NoEnvironment, Null)

\* Twenty particles a second for 150 ms, under gravity.
Burst ==
    UpdateOptions(Num(I(20)), I(100), Environment(Num(I(500)), Null, Null, FALSE),
                  Num(I(150)))

\* Ten particles a second for 150 ms, under gravity.
Brief ==
    UpdateOptions(Num(I(10)), I(100), Environment(Num(I(500)), Null, Null, FALSE),
                  Num(I(150)))

\* Particles that live 200 ms.
ShortLived == SpawnOptions(MovingRight, Num(Q(1, 5)), Null)

\* Particles that live 200 ms and whose onUpdate hook changes their mass.
Heavy == SpawnOptions(MovingRight, Num(Q(1, 5)), Fn("mass"))

\* The initialSize and maxParticles (maxPoolSize) a configuration may have.
InitialSizes == {Num(I(0)), Num(I(2))}

MaxSizes == {Null, Num(I(-1)), Num(I(0)), Num(I(1)), Num(I(2))}

Random(seeds, values) == [seeds |-> seeds, values |-> values]

\* Every initialSize and maxParticles of a small range, for short-lived
\* particles and a random source that always returns 0.  rand holds the values
\* Math.random may return for a particle's seed and for a draw from a range.
PoolConfigs ==
    {[options |-> EmitterOptions(initialSize, maxParticles, ShortLived, Steady, Null),
      rand |-> Random({Zero}, {Zero})] :
        initialSize \in InitialSizes, maxParticles \in MaxSizes}

OtherConfigs ==
    {\* the seed is 0 or 1/2
     [options |-> EmitterOptions(Num(I(0)), Null, ShortLived, Steady, Null),
      rand |-> Random({Zero, Q(1, 2)}, {Zero})],
     \* culled by the frame only, a hook that changes the mass, gravity, a burst
     [options |-> EmitterOptions(Num(I(2)), Num(I(1)),
                                 SpawnOptions(MovingRight, Null, Fn("mass")), Burst, Frame),
      rand |-> Random({Zero}, {Zero})],
     \* a frame and a lifespan drawn from a range
     [options |-> EmitterOptions(Num(I(1)), Num(I(2)),
                                 SpawnOptions(MovingRight, Range(Q(1, 10), Q(3, 10)), Null),
                                 Brief, Frame),
      rand |-> Random({Zero}, {Zero, Q(1, 2)})],
     \* neither a lifespan nor a frame
     [options |-> EmitterOptions(Num(I(0)), Null,
                                 SpawnOptions(MovingRight, Null, Null), Steady, Null),
      rand |-> Random({Zero}, {Zero})]}

Configs == PoolConfigs \cup OtherConfigs

\* The Math.random values one reset may consume.
RandFor(range, random) == IF range.t = "range" THEN random.values ELSE {Zero}

RateDraws(opts, random) ==
    [value : RandFor(opts.updateOptions.spawnRate.value, random),
     velocity : RandFor(opts.updateOptions.spawnRate.velocity, random),
     acceleration : RandFor(opts.updateOptions.spawnRate.acceleration, random)]

\* The Math.random values n inits may consume.
InitDraws(so, random, n) ==
    [1..n -> [seed : random.seeds, rnd : [DrawSites(so) -> random.values]]]

(***************************************************************************)
(* The state: one emitter, its pool, its particles and the clock.          *)
(***************************************************************************)
VARIABLES
    options,    \* the ParticleEmitterOptions the emitter was constructed with
    rand,       \* the values the random source (Math.random) may return
    thrown,     \* the error the constructor threw, or "none"
    em,         \* the emitter's fields
    pool,       \* the pool's fields
    particles,  \* every particle instance constructed
    children,   \* the emitter's display list
    listeners,  \* the registrations of updateEmitter with the ticker
    handed,     \* the instances the pool's get has returned so far
    clock,      \* the milliseconds the clock has delivered
    delivered,  \* the milliseconds the clock has delivered to the emitter since
                \* spawn was switched on, while spawn is on and spawnDuration > 0
    last        \* the last call made, and some of what it did

vars ==
    <<options, rand, thrown, em, pool, particles, children, listeners, handed, clock,
      delivered, last>>

World ==
    [options |-> options, particles |-> particles, pool |-> pool,
     children |-> children, em |-> em, listeners |-> listeners, rng |-> <<>>,
     got |-> NoItem, handed |-> handed]

Commit(w) ==
    /\ particles' = w.particles
    /\ pool' = w.pool
    /\ children' = w.children
    /\ em' = w.em
    /\ listeners' = w.listeners
    /\ handed' = w.handed

\* What delivered becomes by a call during which the clock gave the emitter
\* deltaMS milliseconds.
Delivered(deltaMS) ==
    IF ~em'.spawn \/ Le(em'.spawnDuration, Zero) \/ ~em.spawn THEN 0
    ELSE delivered + deltaMS

\* A call that would construct more instances than the model follows is left out.
CommitWithin(w, maxInstances) == Len(w.particles) <= maxInstances /\ Commit(w)

CommitBounded(w) == CommitWithin(w, MaxInstances)

\* Idle, Running or Paused.
RunState(e) == IF ~e.isRunning THEN "Idle" ELSE IF e.isPaused THEN "Paused" ELSE "Running"

\* The record of a call: its name, its argument, the state it was made in, the
\* spawn attempts (calls of get) it made, how many of them returned a particle,
\* the random values its inits were given, how many live particles it
\* recycled as dead, what it returned when it returns a boolean, and, where
\* updateEmitter is followed statement by statement, the statements it has run.
Call(op, arg, was, attempts, spawned, draws) ==
    [op |-> op, arg |-> arg, was |-> was, attempts |-> attempts, spawned |-> spawned,
     draws |-> draws, culled |-> 0, result |-> FALSE, steps |-> <<>>]

\* The record of a lifecycle call of the emitter.
EmitterCall(op, arg) == Call(op, arg, RunState(em), 0, 0, <<>>)

NoCall == Call("construct", 0, "Idle", 0, 0, <<>>)

ConstructionError == "ParticleEmitter - You must define a lifespan or a contentFrame"

\* The state a constructed world gives.
Constructed(w) ==
    /\ em = w.em
    /\ pool = w.pool
    /\ particles = w.particles
    /\ children = w.children
    /\ listeners = w.listeners
    /\ handed = w.handed

\* The state after new ParticleEmitter(options), for one of these configurations.
InitOf(configs) ==
    /\ \E c \in configs : options = c.options /\ rand = c.rand
    /\ clock = 0
    /\ delivered = 0
    /\ last = NoCall
    /\ IF IsMisconfigured(options)
       THEN thrown = ConstructionError /\ Constructed(BlankWorld(options))
       ELSE /\ thrown = "none"
            /\ \E rr \in RateDraws(options, rand) : Constructed(Construct(options, rr))

Init == InitOf(Configs)

\* The spawn attempts _spawn makes in a world that passed updateEmitter's gate
\* and _updateSpawnRate.
AttemptsDue(w) ==
    IF ~w.em.spawn \/ ~TruthyNum(w.em.spawnInterval) THEN 0
    ELSE IF Lt(Add(w.em.spawnElapsed, w.em.updateElapsed), w.em.spawnInterval) THEN 0
    ELSE FloorInt(Div(Add(w.em.spawnElapsed, w.em.updateElapsed), w.em.spawnInterval))

AttemptsGated(w) ==
    IF Lt(w.em.updateElapsed, w.options.updateOptions.interval) THEN 0
    ELSE AttemptsDue(RateStep(w))

\* The spawn attempts the next tick of deltaMS makes.
SpawnAttempts(w, deltaMS) ==
    IF w.listeners = 0 THEN 0
    ELSE AttemptsGated([w EXCEPT !.em.updateElapsed = Add(@, deltaMS)])

\* The ticker calls every registered listener once.
RECURSIVE TickerEmit(_, _, _)
TickerEmit(w, deltaMS, k) ==
    IF k <= 0 THEN w ELSE TickerEmit(UpdateEmitter(w, deltaMS), deltaMS, k - 1)

IMin(a, b) == IF a < b THEN a ELSE b

\* What a tick leaves: the world, and the record of the call.  Every init
\* consumed one of the draws.
CommitTick(w, delta, draws, maxInstances) ==
    /\ CommitWithin(w, maxInstances)
    /\ last' = [Call("tick", delta, RunState(em), SpawnAttempts(World, I(delta)),
                     Len(draws) - Len(w.rng), draws)
                   EXCEPT !.culled = Len(children) + Len(draws) - Len(w.rng)
                                        - Len(w.children)]

\* The clock delivers a tick of delta milliseconds, in a run that follows at
\* most maxInstances instances.
TickWithin(delta, maxInstances) ==
    /\ thrown = "none"
    /\ clock + delta <= MaxClock * ClockStep
    /\ clock' = clock + delta
    /\ \E draws \in InitDraws(options.spawnOptions, rand,
                              IMin(SpawnAttempts(World, I(delta)), maxInstances)) :
          CommitTick(TickerEmit([World EXCEPT !.rng = draws], I(delta), listeners),
                     delta, draws, maxInstances)
    /\ delivered' = Delivered(IF listeners > 0 THEN delta ELSE 0)
    /\ UNCHANGED <<options, rand, thrown>>

Tick(delta) == TickWithin(delta, MaxInstances)

DoStart(emit) ==
    /\ thrown = "none"
    /\ Commit(Start(World, emit))
    /\ last' = EmitterCall("start", IF emit THEN 1 ELSE 0)
    /\ delivered' = Delivered(0)
    /\ UNCHANGED <<options, rand, thrown, clock>>

DoPause ==
    /\ thrown = "none"
    /\ Commit(Pause(World))
    /\ last' = EmitterCall("pause", 0)
    /\ delivered' = Delivered(0)
    /\ UNCHANGED <<options, rand, thrown, clock>>

DoResume ==
    /\ thrown = "none"
    /\ Commit(Resume(World))
    /\ last' = EmitterCall("resume", 0)
    /\ delivered' = Delivered(0)
    /\ UNCHANGED <<options, rand, thrown, clock>>

DoStop ==
    /\ thrown = "none"
    /\ \E rr \in RateDraws(options, rand) : Commit(Stop(World, rr))
    /\ last' = EmitterCall("stop", Len(children))
    /\ delivered' = Delivered(0)
    /\ UNCHANGED <<options, rand, thrown, clock>>

DoReset ==
    /\ thrown = "none"
    /\ \E rr \in RateDraws(options, rand) : Commit(ResetEmitter(World, rr))
    /\ last' = EmitterCall("reset", Len(children))
    /\ delivered' = Delivered(0)
    /\ UNCHANGED <<options, rand, thrown, clock>>

Next ==
    \/ \E delta \in Deltas : Tick(delta)
    \/ \E emit \in BOOLEAN : DoStart(emit)
    \/ DoPause
    \/ DoResume
    \/ DoStop
    \/ DoReset

Spec == Init /\ [][Next]_vars

(***************************************************************************)
(* The emitter's whole life, destroy() included, for a few configurations: *)
(* a prepopulated pool, a lifespan drawn from a range of values <= 0, and     *)
(* options the constructor rejects.                                        *)
(***************************************************************************)
\* Particles whose lifespan is drawn from [-0.2, 0] seconds.
Ephemeral == SpawnOptions(MovingRight, Range(Q(-1, 5), Zero), Null)

\* Particles whose lifespan is given as 0.
ZeroLifespan == SpawnOptions(MovingRight, Num(Zero), Null)

LifeConfigs ==
    {[options |-> EmitterOptions(Num(I(2)), Null, ShortLived, Steady, Null),
      rand |-> Random({Zero}, {Zero})],
     [options |-> EmitterOptions(Num(I(0)), Null, Ephemeral, Steady, Null),
      rand |-> Random({Zero}, {Zero, One})],
     [options |-> EmitterOptions(Num(I(0)), Null, ZeroLifespan, Steady, Frame),
      rand |-> Random({Zero}, {Zero})],
     [options |-> EmitterOptions(Num(I(0)), Null, ZeroLifespan, Steady, Null),
      rand |-> Random({Zero}, {Zero})],
     [options |-> EmitterOptions(Num(I(0)), Null,
                                 SpawnOptions(MovingRight, Null, Null), Steady, Null),
      rand |-> Random({Zero}, {Zero})]}

LifeInit == InitOf(LifeConfigs)

\* destroy(options); the call's argument is the size of the free list.
DoDestroy(destroyChildren) ==
    /\ thrown = "none"
    /\ Commit(Destroy(World, destroyChildren))
    /\ last' = EmitterCall("destroy", Len(pool.items))
    /\ delivered' = Delivered(0)
    /\ UNCHANGED <<options, rand, thrown, clock>>

LifeNext ==
    \/ Next
    \/ \E destroyChildren \in BOOLEAN : DoDestroy(destroyChildren)

LifeSpec == LifeInit /\ [][LifeNext]_vars

(***************************************************************************)
(* A fast emitter: a thousand particles a second, evaluated every 100 ms,  *)
(* from a pool without a limit.                                            *)
(***************************************************************************)
Fast == UpdateOptions(Num(I(1000)), I(100), NoEnvironment, Null)

FastConfigs ==
    {[options |-> EmitterOptions(Num(I(0)), Null, ShortLived, Fast, Null),
      rand |-> Random({Zero}, {Zero})]}

FastInit == InitOf(FastConfigs)

FastNext ==
    \/ \E delta \in Deltas : TickWithin(delta, MaxFastInstances)
    \/ \E emit \in BOOLEAN : DoStart(emit)
    \/ DoPause
    \/ DoResume
    \/ DoStop
    \/ DoReset

FastSpec == FastInit /\ [][FastNext]_vars

(***************************************************************************)
(* Emitters whose particles move, grow and spin under velocity caps, in    *)
(* gravity and wind.                                                       *)
(***************************************************************************)
\* Leftwards at 400 px/s and accelerating downwards, capped at 100 px/s.
CappedMotion ==
    [Vector2(Num(Zero), Num(Zero))
        EXCEPT !.velocityX = Num(I(-400)), !.velocityY = Num(I(50)),
               !.accelerationY = Num(I(1000)), !.maxVelocity = Num(I(100))]

\* Growing in x (capped at 1 per second) and shrinking in y (no cap).
CappedScale ==
    [Vector2(Num(One), Num(One))
        EXCEPT !.velocityX = Num(I(2)), !.velocityY = Num(I(-2)),
               !.maxVelocityX = Num(One)]

CappedSpin == Vector1(Num(Zero), Num(I(5)), Num(I(10)), Num(I(3)))

CappedOptions ==
    [SpawnOptions(CappedMotion, Num(Q(3, 10)), Null)
        EXCEPT !.scale = CappedScale, !.rotation = CappedSpin]

\* The same particles without any cap.
UncappedOptions ==
    [CappedOptions EXCEPT !.position.maxVelocity = Null, !.scale.maxVelocityX = Null,
                          !.rotation.maxVelocity = Null]

\* Ten particles a second, evaluated every 100 ms, in gravity and wind.
Windy ==
    UpdateOptions(Num(I(10)), I(100), Environment(Num(I(500)), Null, Num(I(300)), FALSE),
                  Null)

CapConfigs ==
    {[options |-> EmitterOptions(Num(I(0)), Null, spawnOptions, updateOptions, Null),
      rand |-> Random({Zero}, {Zero})] :
        spawnOptions \in {CappedOptions, UncappedOptions},
        updateOptions \in {Steady, Windy}}

CapInit == InitOf(CapConfigs)

CapSpec == CapInit /\ [][Next]_vars

(***************************************************************************)
(* Emitters whose options reach the corners of the configuration: a spawn  *)
(* rate that is negative, falls or surges; mirrored particles in air that  *)
(* resists by their surface; particles that fade in from black.            *)
(***************************************************************************)
\* Minus five particles a second.
Negative == [Steady EXCEPT !.spawnRate = Vector1(Num(I(-5)), Null, Null, Null)]

\* Ten particles a second, falling by 200 a second.
Falling == [Steady EXCEPT !.spawnRate = Vector1(Num(I(10)), Num(I(-200)), Null, Null)]

\* Ten particles a second, falling by 60 a second.
Sinking == [Steady EXCEPT !.spawnRate = Vector1(Num(I(10)), Num(I(-60)), Null, Null)]

\* Four particles a second, rising by 10 a second.
Rising == [Steady EXCEPT !.spawnRate = Vector1(Num(I(4)), Num(I(10)), Null, Null)]

\* Ten particles a second, rising by 50 a second and ever faster, by at most
\* 100 a second.
Surging ==
    [Steady EXCEPT !.spawnRate = Vector1(Num(I(10)), Num(I(50)), Num(I(500)), Num(I(100)))]

\* Air that resists by the particle's surface.
Drag == UpdateOptions(Num(I(10)), I(100), Environment(Null, Num(I(10)), Null, TRUE), Null)

\* Short-lived 10x10 particles mirrored in x.
Mirrored ==
    [ShortLived EXCEPT !.scale = Vector2(Num(I(-1)), Num(One)), !.onInit = Fn("texture")]

\* Short-lived particles whose colour goes from black to white.
FromBlack == [ShortLived EXCEPT !.color = StartEnd(Num(Zero), Num(I(White)))]

OptionConfigs ==
    {[options |-> EmitterOptions(Num(I(0)), Null, c[1], c[2], Null),
      rand |-> Random({Zero}, {Zero})] :
        c \in {<<ShortLived, Negative>>, <<ShortLived, Falling>>, <<ShortLived, Sinking>>,
               <<ShortLived, Rising>>, <<ShortLived, Surging>>, <<Mirrored, Drag>>, <<FromBlack, Steady>>}}

OptionInit == InitOf(OptionConfigs)

OptionSpec == OptionInit /\ [][Next]_vars

(***************************************************************************)
(* updateEmitter statement by statement.  A tick that passes the gate runs *)
(* _updateSpawnRate, _spawn, updateSpawnDuration, the loop over the        *)
(* children and the clearing of _updateElapsed one after the other;        *)
(* last.steps holds the statements run so far.  The emitter has one thread *)
(* of control: its other operations run between two ticks.                 *)
(***************************************************************************)
\* The statement updateEmitter runs after this one.
AfterPassFirst(step) ==
    CASE step = "gate" -> "rate"
      [] step = "rate" -> "spawn"
      [] step = "spawn" -> "children"
      [] step = "children" -> "duration"
      [] step = "duration" -> "end"
      [] OTHER -> "idle"

After(step) ==
    CASE step = "gate" -> "rate"
      [] step = "rate" -> "spawn"
      [] step = "spawn" -> "duration"
      [] step = "duration" -> "children"
      [] step = "children" -> "end"
      [] OTHER -> "idle"

\* The statement to run next, "idle" between two calls.
Position == IF last.steps = <<>> THEN "idle" ELSE After(last.steps[Len(last.steps)])

Done(step) == [last EXCEPT !.steps = Append(@, step)]

\* A short burst, and a steady stream without a cap.
StepConfigs ==
    {[options |-> EmitterOptions(Num(I(1)), Num(I(2)),
                                 SpawnOptions(MovingRight, Range(Q(1, 10), Q(3, 10)), Null),
                                 Brief, Frame),
      rand |-> Random({Zero}, {Zero, Q(1, 2)})],
     [options |-> EmitterOptions(Num(I(0)), Null, ShortLived, Steady, Null),
      rand |-> Random({Zero}, {Zero})]}

StepInit == InitOf(StepConfigs)

\* The ticker calls updateEmitter: _updateElapsed gains deltaMS, and the call
\* returns at once unless the interval is reached.
StepGate(delta) ==
    /\ thrown = "none"
    /\ Position = "idle"
    /\ listeners = 1
    /\ clock + delta <= MaxClock * ClockStep
    /\ clock' = clock + delta
    /\ em' = [em EXCEPT !.updateElapsed = Add(@, I(delta))]
    /\ last' = [Call("tick", delta, RunState(em), 0, 0, <<>>)
                   EXCEPT !.steps = IF Lt(em'.updateElapsed, options.updateOptions.interval)
                                    THEN <<>> ELSE <<"gate">>]
    /\ delivered' = Delivered(delta)
    /\ UNCHANGED <<options, rand, thrown, pool, particles, children, listeners, handed>>

StepRate ==
    /\ Position = "rate"
    /\ Commit(RateStep(World))
    /\ last' = Done("rate")
    /\ UNCHANGED <<options, rand, thrown, clock, delivered>>

StepSpawn ==
    /\ Position = "spawn"
    /\ \E draws \in InitDraws(options.spawnOptions, rand,
                              IMin(AttemptsDue(World), MaxInstances)) :
          /\ CommitWithin(SpawnStep([World EXCEPT !.rng = draws]), MaxInstances)
          /\ last' = [Done("spawn") EXCEPT !.attempts = AttemptsDue(World),
                                           !.spawned = Len(children') - Len(children),
                                           !.draws = draws]
    /\ UNCHANGED <<options, rand, thrown, clock, delivered>>

StepDuration ==
    /\ Position = "duration"
    /\ Commit(DurationStep(World, I(last.arg)))
    /\ last' = Done("duration")
    /\ delivered' = Delivered(0)
    /\ UNCHANGED <<options, rand, thrown, clock>>

StepChildren ==
    /\ Position = "children"
    /\ Commit(ChildrenStep(World))
    /\ last' = [Done("children") EXCEPT !.culled = Len(children) - Len(children')]
    /\ UNCHANGED <<options, rand, thrown, clock, delivered>>

StepEnd ==
    /\ Position = "end"
    /\ em' = [em EXCEPT !.updateElapsed = Zero]
    /\ last' = Done("end")
    /\ UNCHANGED <<options, rand, thrown, pool, particles, children, listeners, handed,
                   clock, delivered>>

\* A tick of an emitter the ticker does not call exactly once is taken whole.
StepTick(delta) == Position = "idle" /\ listeners # 1 /\ Tick(delta)

StepNext ==
    \/ \E delta \in Deltas : StepGate(delta)
    \/ StepRate
    \/ StepSpawn
    \/ StepDuration
    \/ StepChildren
    \/ StepEnd
    \/ \E delta \in Deltas : StepTick(delta)
    \/ Position = "idle" /\ \E emit \in BOOLEAN : DoStart(emit)
    \/ Position = "idle" /\ DoPause
    \/ Position = "idle" /\ DoResume
    \/ Position = "idle" /\ DoStop
    \/ Position = "idle" /\ DoReset

StepSpec == StepInit /\ [][StepNext]_vars

(***************************************************************************)
(* The bounds check on its own: an emitter, with or without a content      *)
(* frame, and one 10x10 particle its user constructs, places and hands to  *)
(* isOutOfBounds.                                                          *)
(***************************************************************************)
Region == Rectangle(Zero, Zero, I(100), I(100))

\* A particle at (0, 0) whose onInit hook gives it a 10x10 texture.
Textured ==
    [SpawnOptions(Vector2(Num(Zero), Num(Zero)), Num(One), Null)
        EXCEPT !.onInit = Fn("texture")]

BoundsConfigs ==
    {[options |-> EmitterOptions(Num(I(0)), Null, Textured, Steady, frame),
      rand |-> Random({Zero}, {Zero})] : frame \in {Null, Region}}

\* The coordinates and the anchors the user gives the particle.
PlacesX == {I(-106), I(-105), I(-95), I(-6), I(-5), I(0), I(50), I(105), I(106)}

PlacesY == {I(-6), I(-5), I(50), I(105), I(106)}

Anchors == {Zero, Q(1, 2)}

\* const particle = new ParticleItem(); particle.init(data)
OwnParticle(w) ==
    [w EXCEPT !.particles = Append(@, InitParticle(NewParticle, InitData(w), Zero, <<>>))]

BoundsInit ==
    /\ \E c \in BoundsConfigs : options = c.options /\ rand = c.rand
    /\ clock = 0
    /\ delivered = 0
    /\ last = NoCall
    /\ thrown = "none"
    /\ \E rr \in RateDraws(options, rand) : Constructed(OwnParticle(Construct(options, rr)))

\* particle.position.set(x, y)
MoveTo(id, x, y) ==
    /\ particles' = [particles EXCEPT ![id].x = x, ![id].y = y]
    /\ last' = EmitterCall("move", id)
    /\ UNCHANGED <<options, rand, thrown, em, pool, children, listeners, handed, clock,
                   delivered>>

\* particle.anchor.set(anchor)
SetAnchor(id, anchor) ==
    /\ particles' = [particles EXCEPT ![id].anchorX = anchor, ![id].anchorY = anchor]
    /\ last' = EmitterCall("anchor", id)
    /\ UNCHANGED <<options, rand, thrown, em, pool, children, listeners, handed, clock,
                   delivered>>

\* emitter.isOutOfBounds(particle)
DoIsOutOfBounds(id) ==
    /\ last' = [EmitterCall("isOutOfBounds", id)
                   EXCEPT !.result = IsOutOfBounds(em.contentFrame, particles[id])]
    /\ UNCHANGED <<options, rand, thrown, em, pool, particles, children, listeners,
                   handed, clock, delivered>>

BoundsNext ==
    \/ \E x \in PlacesX, y \in PlacesY : MoveTo(1, x, y)
    \/ \E anchor \in Anchors : SetAnchor(1, anchor)
    \/ DoIsOutOfBounds(1)

BoundsSpec == BoundsInit /\ [][BoundsNext]_vars

(***************************************************************************)
(* The pool on its own: a ParticlePool of ParticleItems constructed and    *)
(* called directly (get, return, prepopulate), whose user advances the     *)
(* items it holds with updatePhysics.  options holds the constructor's     *)
(* initialSize and maxPoolSize (as maxParticles) and the init data.        *)
(***************************************************************************)
PoolSizes == {Null, Num(I(0)), Num(I(1)), Num(I(2))}

PoolOptions ==
    {EmitterOptions(initialSize, maxPoolSize, Heavy, Steady, Null) :
        initialSize \in PoolSizes, maxPoolSize \in MaxSizes}

PoolInit ==
    /\ options \in PoolOptions
    /\ rand = Random({Zero}, {Zero})
    /\ thrown = "none"
    /\ clock = 0
    /\ delivered = 0
    /\ last = NoCall
    /\ Constructed(NewPool(BlankWorld(options), options.initialSize, options.maxParticles))

\* Whether the pool's user has ever been handed this item.
Held(id) == IF id \in handed THEN "Handed" ELSE "New"

\* Whether the item is in the pool, by its flag.
Pooled(id) == IF particles[id].inPool THEN "InPool" ELSE "Out"

\* What a call of get leaves: the world, and the item returned as the call's
\* argument.
\* A call that would construct more instances than the model follows is left out.
CommitPool(w) == Len(w.particles) <= MaxPoolInstances /\ Commit(w)

CommitGet(w, draws) ==
    /\ CommitPool(w)
    /\ last' = Call("get", w.got, Held(w.got), 1, IF w.got = NoItem THEN 0 ELSE 1, draws)

PGet ==
    /\ \E draws \in InitDraws(options.spawnOptions, rand, 1) :
          CommitGet(PoolGet([World EXCEPT !.rng = draws], InitData(World)), draws)
    /\ UNCHANGED <<options, rand, thrown, clock, delivered>>

\* return, of any item get has returned so far.
PReturn(id) ==
    /\ id \in handed
    /\ Commit(PoolReturn(World, id))
    /\ last' = Call("return", id, Pooled(id), 0, 0, <<>>)
    /\ UNCHANGED <<options, rand, thrown, clock, delivered>>

PPrepopulate(count) ==
    /\ CommitPool(Prepopulate(World, count))
    /\ last' = Call("prepopulate", count, "Idle", 0, 0, <<>>)
    /\ UNCHANGED <<options, rand, thrown, clock, delivered>>

\* The user advances an item it holds by delta milliseconds.
PUse(id, delta) ==
    /\ id \in handed
    /\ ~particles[id].inPool
    /\ clock + delta <= MaxUses * ClockStep
    /\ clock' = clock + delta
    /\ particles' = [particles EXCEPT ![id] = UpdatePhysics(@, I(delta), Null)]
    /\ last' = Call("use", id, Pooled(id), 0, 0, <<>>)
    /\ UNCHANGED <<options, rand, thrown, em, pool, children, listeners, handed, delivered>>

PoolNext ==
    \/ PGet
    \/ \E id \in 1..MaxPoolInstances : PReturn(id)
    \/ \E count \in 1..MaxPrepopulate : PPrepopulate(count)
    \/ \E id \in 1..MaxPoolInstances : PUse(id, ClockStep)

PoolSpec == PoolInit /\ [][PoolNext]_vars

(***************************************************************************)
(* The pool called directly, clear and destroy included.                   *)
(***************************************************************************)
PClear ==
    /\ Commit(PoolClear(World))
    /\ last' = Call("clear", Len(pool.items), "Idle", 0, 0, <<>>)
    /\ UNCHANGED <<options, rand, thrown, clock, delivered>>

PDestroy ==
    /\ Commit(PoolDestroy(World))
    /\ last' = Call("destroy", Len(pool.items), "Idle", 0, 0, <<>>)
    /\ UNCHANGED <<options, rand, thrown, clock, delivered>>

PoolLifeNext ==
    \/ PoolNext
    \/ PClear
    \/ PDestroy

PoolLifeSpec == PoolInit /\ [][PoolLifeNext]_vars

(***************************************************************************)
(* What the claims speak of.                                               *)
(***************************************************************************)
\* How often the item is in the pool's free list.
Count(items, id) == Cardinality({k \in DOMAIN items : items[k] = id})

InFreeList(id) == Count(pool.items, id) > 0

\* Whether the item is a live particle: a child of the emitter.
IsLive(id) == Count(children, id) > 0

Instances == DOMAIN particles

\* The free list is empty and the pool may construct no more.
Exhausted == pool.items = <<>> /\ ~Lt(I(pool.createdCount), pool.maxPoolSize)

(***************************************************************************)
(* C1: after any sequence of emitter operations no particle is both in the *)
(* pool's free list and a live particle of the emitter, and every live     *)
(* particle has inPool = false.                                            *)
(***************************************************************************)
C1_FreeAndLiveDisjoint ==
    \A id \in Instances :
        /\ ~(InFreeList(id) /\ IsLive(id))
        /\ IsLive(id) => ~particles[id].inPool

\* A tick that left both live particles and recycled ones.
C1_Witness ==
    /\ last.op = "tick"
    /\ children # <<>>
    /\ \E id \in handed : InFreeList(id)

(***************************************************************************)
(* C2: the number of distinct instances get has handed out never exceeds   *)
(* maxPoolSize, whatever the constructor's arguments and the calls of get, *)
(* return and prepopulate.  (Stated for a maxPoolSize that is not          *)
(* negative: below 0 the bound is exceeded before anything is handed out.) *)
(***************************************************************************)
C2_HandedWithinMaxPoolSize ==
    Ge(pool.maxPoolSize, Zero) => Le(I(Cardinality(handed)), pool.maxPoolSize)

(***************************************************************************)
(* C3: with maxParticles = -1 the pool is unlimited: every spawn attempt   *)
(* of a tick gets a particle.                                              *)
(***************************************************************************)
C3_UnlimitedNeverRefuses ==
    (options.maxParticles = Num(I(-1)) /\ last.op = "tick")
        => last.spawned = last.attempts

(***************************************************************************)
(* C4: with a non-negative maxParticles the emitter never has more than    *)
(* maxParticles live particles, whatever initialSize is.                   *)
(***************************************************************************)
C4_LiveWithinMaxParticles ==
    (options.maxParticles.t = "num" /\ Ge(options.maxParticles.v, Zero))
        => Le(I(Len(children)), options.maxParticles.v)

(***************************************************************************)
(* C5: a particle that get hands out again has inPool = false and, after   *)
(* init, every field equal to that of a freshly constructed instance after *)
(* init with the same data and the same random draws.                      *)
(***************************************************************************)
FreshAfterInit(draws) ==
    InitParticle([NewParticle EXCEPT !.inPool = FALSE], InitData(World),
                 draws[1].seed, draws[1].rnd)

C5_ReusedEqualsFresh ==
    (last.op = "get" /\ last.was = "Handed" /\ last.arg # NoItem)
        => particles[last.arg] = FreshAfterInit(last.draws)

(***************************************************************************)
(* C6: return is idempotent: on an item whose inPool flag is already true  *)
(* it changes nothing (the free list and the item stay as they are), and   *)
(* after any return the item is in the free list exactly once.             *)
(***************************************************************************)
ReturnOfPooledChangesNothing ==
    (last'.op = "return" /\ last'.was = "InPool")
        => UNCHANGED <<pool, particles, children, handed>>

ReturnedOnce ==
    last.op = "return"
        => Count(pool.items, last.arg) = 1 /\ particles[last.arg].inPool

C6_ReturnIdempotent == [][ReturnOfPooledChangesNothing]_vars /\ []ReturnedOnce

\* A return of an item that was in the pool already.
C6_Witness ==
    /\ last.op = "return"
    /\ last.was = "InPool"
    /\ Count(pool.items, last.arg) = 1

(***************************************************************************)
(* C7: when the free list is empty and createdCount >= maxPoolSize, get    *)
(* returns nothing and leaves createdCount and the free list as they are;  *)
(* a tick whose spawn step finds the pool so adds no live particle and     *)
(* raises no error.                                                        *)
(***************************************************************************)
ExhaustedGetReturnsNothing ==
    Exhausted => PoolGet(World, InitData(World)) = World

ExhaustedSpawnAddsNothing ==
    (last'.op = "tick" /\ last'.attempts > 0 /\ Exhausted)
        => /\ last'.spawned = 0
           /\ \A id \in DOMAIN particles' : Count(children', id) <= Count(children, id)
           /\ pool'.createdCount = pool.createdCount
           /\ handed' = handed
           /\ thrown' = "none"

C7_ExhaustedPoolToleratedBySpawn ==
    []ExhaustedGetReturnsNothing /\ [][ExhaustedSpawnAddsNothing]_vars

\* A tick that tried to spawn and got nothing, with a particle alive.
C7_Witness ==
    /\ last.op = "tick"
    /\ last.attempts > 0
    /\ last.spawned = 0
    /\ children # <<>>
    /\ thrown = "none"

(***************************************************************************)
(* C8: a lifecycle call made from a state it does not apply to (start      *)
(* while Running or Paused, pause while Idle or Paused, resume while Idle  *)
(* or Running, stop while Idle) changes neither the run state, the flags,  *)
(* the accumulators, the live particles nor the clock subscription.        *)
(***************************************************************************)
Inapplicable(call) ==
    \/ call.op = "start" /\ call.was \in {"Running", "Paused"}
    \/ call.op = "pause" /\ call.was \in {"Idle", "Paused"}
    \/ call.op = "resume" /\ call.was \in {"Idle", "Running"}
    \/ call.op = "stop" /\ call.was = "Idle"

InapplicableCallChangesNothing ==
    Inapplicable(last') => UNCHANGED <<em, pool, particles, children, listeners>>

C8_InapplicableCallsAreNoOps == [][InapplicableCallChangesNothing]_vars

\* pause() of a paused emitter that has live particles.
C8_Witness ==
    /\ last.op = "pause"
    /\ last.was = "Paused"
    /\ children # <<>>

(***************************************************************************)
(* C9: stop() while Running or Paused leaves the emitter Idle, spawn       *)
(* false, the update, spawn and spawn-duration accumulators zero, no live  *)
(* particle, every particle that was live in the free list with inPool     *)
(* true, and the emitter unsubscribed from the clock.                      *)
(***************************************************************************)
StopLeavesIdleAndEmpty ==
    (last'.op = "stop" /\ last'.was \in {"Running", "Paused"})
        => /\ RunState(em') = "Idle"
           /\ ~em'.isRunning /\ ~em'.isPaused /\ ~em'.spawn
           /\ em'.updateElapsed = Zero
           /\ em'.spawnElapsed = Zero
           /\ em'.spawnDurationElapsed = Zero
           /\ children' = <<>>
           /\ \A id \in DOMAIN particles :
                 IsLive(id) => Count(pool'.items, id) = 1 /\ particles'[id].inPool
           /\ ~em'.clockConnected
           /\ listeners' = 0

C9_StopResets == [][StopLeavesIdleAndEmpty]_vars

\* stop() of a running emitter that had live particles.
C9_Witness ==
    /\ last.op = "stop"
    /\ last.was = "Running"
    /\ last.arg > 0

(***************************************************************************)
(* C10: while isPaused is true the emitter is not subscribed to the clock, *)
(* so no tick between pause() and resume() changes the emitter or a        *)
(* particle; resume() from Paused subscribes it exactly once.              *)
(***************************************************************************)
PausedIsUnsubscribed == em.isPaused => (listeners = 0 /\ ~em.clockConnected)

TickWhilePausedChangesNothing ==
    (last'.op = "tick" /\ em.isPaused)
        => UNCHANGED <<em, pool, particles, children, listeners, handed>>

ResumeSubscribesOnce ==
    (last'.op = "resume" /\ last'.was = "Paused")
        => listeners' = 1 /\ em'.clockConnected /\ ~em'.isPaused

C10_PausedReceivesNoTicks ==
    /\ []PausedIsUnsubscribed
    /\ [][TickWhilePausedChangesNothing]_vars
    /\ [][ResumeSubscribesOnce]_vars

\* A tick delivered while the emitter was paused with live particles.
C10_Witness ==
    /\ last.op = "tick"
    /\ last.was = "Paused"
    /\ em.isPaused
    /\ children # <<>>

(***************************************************************************)
(* C11: destroy() from Idle, Running or Paused, with or without a stop()   *)
(* before it, leaves the emitter unsubscribed from the clock and the pool  *)
(* with an empty free list and createdCount = 0, every instance of the     *)
(* free list destroyed; a destroy() that follows a destroy() changes       *)
(* nothing, and no destroy() meets an instance that is destroyed already.  *)
(***************************************************************************)
DestroyTearsDown ==
    last'.op = "destroy"
        => /\ listeners' = 0
           /\ ~em'.clockConnected
           /\ pool'.items = <<>>
           /\ pool'.createdCount = 0
           /\ \A id \in DOMAIN particles : InFreeList(id) => particles'[id].destroyed

SecondDestroyChangesNothing ==
    (last.op = "destroy" /\ last'.op = "destroy")
        => UNCHANGED <<em, pool, particles, children, listeners>>

NoneDestroyedTwice ==
    \A id \in Instances : particles[id].destroyed => ~InFreeList(id) /\ ~IsLive(id)

C11_DestroyIsIdempotent ==
    /\ [][DestroyTearsDown]_vars
    /\ [][SecondDestroyChangesNothing]_vars
    /\ []NoneDestroyedTwice

\* A destroy() of a running emitter that found the free list empty and
\* instances destroyed: a destroy() came before it.
C11_Witness ==
    /\ last.op = "destroy"
    /\ last.was = "Running"
    /\ last.arg = 0
    /\ em.destroyed
    /\ \E id \in Instances : particles[id].destroyed

(***************************************************************************)
(* C12: the constructor fails with the configuration error exactly when    *)
(* neither spawnOptions.lifespan nor a content frame is given; otherwise   *)
(* it leaves an Idle emitter with spawn = false and no live particle.      *)
(***************************************************************************)
ConstructedIdle ==
    (thrown = "none" /\ last = NoCall)
        => RunState(em) = "Idle" /\ ~em.spawn /\ children = <<>> /\ listeners = 0

C12_FailsIffNeitherGiven ==
    /\ thrown = ConstructionError
          <=> (options.spawnOptions.lifespan = Null /\ options.contentFrame = Null)
    /\ ConstructedIdle

\* C12 as the constructor has it: it fails exactly when spawnOptions.lifespan
\* is absent or 0 and no content frame is given.
C12_FailsIffNoLifespanButZero ==
    /\ thrown = ConstructionError
          <=> (options.spawnOptions.lifespan \in {Null, Num(Zero)}
                  /\ options.contentFrame = Null)
    /\ thrown \in {"none", ConstructionError}
    /\ ConstructedIdle

\* A construction that failed although a lifespan, 0, was given.
C12_Witness ==
    /\ thrown = ConstructionError
    /\ options.spawnOptions.lifespan = Num(Zero)
    /\ options.contentFrame = Null

(***************************************************************************)
(* C13: with spawnRate.value = 1000 (a spawn interval of 1 ms, no rate     *)
(* velocity or acceleration), a tick interval of 100 ms and a pool that is *)
(* not exhausted, after start(true) the first qualifying tick, the one at  *)
(* which 100 ms have accumulated, spawns exactly 100 particles and leaves  *)
(* the spawn accumulator at 0.                                             *)
(***************************************************************************)
\* The emitter is running, spawning, and has evaluated no tick since start.
FreshlyStarted ==
    /\ RunState(em) = "Running"
    /\ listeners > 0
    /\ em.spawn
    /\ em.spawnElapsed = em.spawnInterval

FirstTickSpawnsHundred ==
    (/\ options.updateOptions = Fast
     /\ FreshlyStarted
     /\ last'.op = "tick"
     /\ Add(em.updateElapsed, I(last'.arg)) = I(100))
        => last'.spawned = 100 /\ em'.spawnElapsed = Zero

C13_FirstTickSpawnsHundred == [][FirstTickSpawnsHundred]_vars

(***************************************************************************)
(* C14: with spawnDuration D > 0 and spawn switched on by start(true),     *)
(* spawn is false after the first qualifying tick by which the clock has   *)
(* delivered D milliseconds or more to the emitter since the start,        *)
(* whatever the emitter's interval is; whenever spawn is off the           *)
(* spawn-duration timer is 0.                                              *)
(***************************************************************************)
\* The last call was a tick that updateEmitter evaluated.
AfterQualifyingTick ==
    last.op = "tick" /\ last.was = "Running" /\ em.updateElapsed = Zero

C14_SpawnStopsAfterDuration ==
    /\ (AfterQualifyingTick /\ em.spawn /\ Gt(em.spawnDuration, Zero))
          => Lt(I(delivered), em.spawnDuration)
    /\ ~em.spawn => em.spawnDurationElapsed = Zero

(***************************************************************************)
(* C15: in a Running emitter a particle with a finite lifespan L > 0 is    *)
(* recycled (detached and returned to the pool) by the first qualifying    *)
(* tick that finds its currentLife >= L: a qualifying tick recycles every  *)
(* live particle it finds so, and none whose currentLife is below L and    *)
(* that is within bounds.                                                  *)
(***************************************************************************)
HasLifespan(p) == p.lifespan # Inf /\ Gt(p.lifespan, Zero)

\* The step is a tick, of a running emitter, that updateEmitter evaluates.
QualifyingTick ==
    /\ last'.op = "tick"
    /\ last'.was = "Running"
    /\ listeners > 0
    /\ Ge(Add(em.updateElapsed, I(last'.arg)), options.updateOptions.interval)

Recycled(id) ==
    Count(children', id) = 0 /\ Count(pool'.items, id) = 1 /\ particles'[id].inPool

RecycledWhenLifespanReached ==
    QualifyingTick
        => \A id \in Instances :
              (IsLive(id) /\ HasLifespan(particles[id]))
                  => IF Ge(particles[id].currentLife, particles[id].lifespan)
                     THEN Recycled(id)
                     ELSE IsOutOfBounds(em.contentFrame, particles[id])
                             \/ Count(children', id) = 1

C15_RecycledWhenLifespanReached == [][RecycledWhenLifespanReached]_vars

\* A tick of a running emitter without a content frame that recycled a
\* particle: its currentLife had reached its lifespan.
C15_Witness ==
    /\ last.op = "tick"
    /\ last.was = "Running"
    /\ last.culled > 0
    /\ options.contentFrame = Null
    /\ options.spawnOptions = ShortLived

(***************************************************************************)
(* C16: a particle whose sampled lifespan is zero or negative is immortal: *)
(* its life fraction is 0 and no tick recycles it for its age.             *)
(***************************************************************************)
\* Every lifespan init may sample is zero or negative.
NonPositiveLifespans ==
    /\ options.spawnOptions.lifespan.t = "range"
    /\ Le(options.spawnOptions.lifespan.lo, Zero)
    /\ Le(options.spawnOptions.lifespan.hi, Zero)

C16_NonPositiveLifespanIsImmortal ==
    /\ \A id \in Instances :
          Le(particles[id].lifespan, Zero) => LifePercent(particles[id]) = Zero
    /\ (last.op = "tick" /\ NonPositiveLifespans /\ options.contentFrame = Null)
          => last.culled = 0

(***************************************************************************)
(* C17: a particle spawned without a configured lifespan is never recycled *)
(* for its age: its lifespan is Infinity, a tick recycles it only when it  *)
(* is out of bounds, and otherwise only stop() and reset() recycle it.     *)
(***************************************************************************)
NoLifespan == options.spawnOptions.lifespan = Null

RecycledOnlyOutOfBounds ==
    NoLifespan
        => \A id \in Instances :
              (IsLive(id) /\ Count(children', id) = 0)
                  => \/ last'.op \in {"stop", "reset", "destroy"}
                     \/ last'.op = "tick" /\ IsOutOfBounds(em.contentFrame, particles[id])

C17_NoLifespanNeverAgesOut ==
    /\ [](NoLifespan => \A id \in Instances : IsLive(id) => particles[id].lifespan = Inf)
    /\ [][RecycledOnlyOutOfBounds]_vars

\* A tick that left alive a particle without a lifespan that is 200 ms old.
C17_Witness ==
    /\ last.op = "tick"
    /\ NoLifespan
    /\ \E id \in Instances : IsLive(id) /\ Ge(particles[id].currentLife, Q(1, 5))

(***************************************************************************)
(* C18: for a 10x10 particle anchored at its centre and the region         *)
(* (x: 0, y: 0, w: 100, h: 100), isOutOfBounds is true when the particle's *)
(* centre is at x = -105 and false when it is at x = -95, y being inside   *)
(* the region.                                                             *)
(***************************************************************************)
\* isOutOfBounds was called on the 10x10 particle, anchored at its centre with
\* y = 50, for the region (0, 0, 100, 100).
ScenarioCall ==
    /\ last.op = "isOutOfBounds"
    /\ em.contentFrame = Region
    /\ Width(particles[last.arg]) = I(10) /\ Height(particles[last.arg]) = I(10)
    /\ particles[last.arg].anchorX = Q(1, 2) /\ particles[last.arg].anchorY = Q(1, 2)
    /\ particles[last.arg].y = I(50)

C18_OutAtMinus105InAtMinus95 ==
    ScenarioCall
        => /\ particles[last.arg].x = I(-105) => last.result
           /\ particles[last.arg].x = I(-95) => ~last.result

\* C18 as isOutOfBounds has it: the box of a centre at x = -95 is [-100, -90],
\* entirely left of the region as that of x = -105 is, so both are out of
\* bounds; a centre at x = -5, whose box touches the region's edge, is not.
C18_OutAtMinus105AndMinus95 ==
    ScenarioCall
        => /\ particles[last.arg].x = I(-105) => last.result
           /\ particles[last.arg].x = I(-95) => last.result
           /\ particles[last.arg].x = I(-5) => ~last.result

\* The call of the scenario with the centre at x = -95.
C18_Witness == ScenarioCall /\ particles[last.arg].x = I(-95) /\ last.result

(***************************************************************************)
(* C19: isOutOfBounds is true exactly when a region is configured and the  *)
(* particle's box (from its position, width, height and anchor) shares no  *)
(* point with the region; a box that overlaps or touches it is not out of  *)
(* bounds, and without a region nothing is.                                *)
(***************************************************************************)
\* Whether the intervals [a1, a2] and [b1, b2] share a point.
Meet(a1, a2, b1, b2) == Le(Max(a1, b1), Min(a2, b2))

BoxMeetsRegion(frame, p) ==
    /\ Meet(Sub(p.x, Mul(Width(p), p.anchorX)),
            Add(p.x, Mul(Width(p), Sub(One, p.anchorX))),
            frame.x, Add(frame.x, frame.width))
    /\ Meet(Sub(p.y, Mul(Height(p), p.anchorY)),
            Add(p.y, Mul(Height(p), Sub(One, p.anchorY))),
            frame.y, Add(frame.y, frame.height))

C19_OutIffBoxMissesRegion ==
    last.op = "isOutOfBounds"
        => (last.result
              <=> (em.contentFrame # Null
                      /\ ~BoxMeetsRegion(em.contentFrame, particles[last.arg])))

\* A call for a box that touches the region's left edge and no more.
C19_Witness ==
    /\ last.op = "isOutOfBounds"
    /\ em.contentFrame = Region
    /\ Add(particles[last.arg].x, Mul(Width(particles[last.arg]),
                                      Sub(One, particles[last.arg].anchorX)))
          = em.contentFrame.x
    /\ ~last.result

(***************************************************************************)
(* C20: after every updatePhysics of a particle without an onUpdate hook,  *)
(* each of velocityX, velocityY, scaleVelocityX, scaleVelocityY and        *)
(* rotationVelocity whose cap c is >= 0 has |value| <= c, also when the    *)
(* environment's forces were applied just before; a value whose cap is < 0 *)
(* is left as the integration made it.                                     *)
(***************************************************************************)
\* The velocity-like fields, each with its cap.
Caps(p) ==
    <<<<p.velocityX, p.maxVelocityX>>, <<p.velocityY, p.maxVelocityY>>,
      <<p.scaleVelocityX, p.maxScaleVelocityX>>, <<p.scaleVelocityY, p.maxScaleVelocityY>>,
      <<p.rotationVelocity, p.maxRotationVelocity>>>>

WithinCaps(p) ==
    \A k \in 1..5 : Ge(Caps(p)[k][2], Zero) => Le(Abs(Caps(p)[k][1]), Caps(p)[k][2])

\* Every field of p without a cap has the value it has in q.
UncappedAsIn(p, q) ==
    \A k \in 1..5 : Lt(Caps(p)[k][2], Zero) => Caps(p)[k][1] = Caps(q)[k][1]

\* What the forces and the integration of a tick of delta milliseconds make of
\* the particle, before the clamp.
Unclamped(p, elapsedMS) ==
    Integrate(ApplyEnvironment(em.environment, p, elapsedMS), elapsedMS,
              Div(elapsedMS, I(1000)))

AdvanceKeepsCaps ==
    QualifyingTick
        => \A id \in DOMAIN particles' :
              (Count(children', id) = 1 /\ particles'[id].onUpdate = NoHook)
                  => /\ WithinCaps(particles'[id])
                     /\ (id \in Instances /\ IsLive(id))
                           => UncappedAsIn(particles'[id],
                                           Unclamped(particles[id],
                                                     Add(em.updateElapsed, I(last'.arg))))

C20_AdvanceKeepsCaps == [][AdvanceKeepsCaps]_vars

\* After a tick in gravity and wind a live particle moves left and down at its
\* cap, grows in x and spins at their caps, and shrinks in y ever faster.
C20_Witness ==
    /\ AfterQualifyingTick
    /\ options.updateOptions = Windy
    /\ \E id \in Instances :
          /\ IsLive(id)
          /\ particles[id].maxVelocityX = I(100)
          /\ particles[id].velocityX = I(-100)
          /\ particles[id].velocityY = I(100)
          /\ particles[id].scaleVelocityX = One
          /\ particles[id].rotationVelocity = I(3)
          /\ Lt(particles[id].maxScaleVelocityY, Zero)

(***************************************************************************)
(* C21: the emitter's spawn rate is never negative, whatever spawnRate     *)
(* value, velocity, acceleration and cap are configured: it is >= 0 after  *)
(* construction, after reset and after every qualifying tick.              *)
(***************************************************************************)
C21_SpawnRateNeverNegative == thrown = "none" => Ge(em.spawnRate, Zero)

(***************************************************************************)
(* C22: air resistance with a coefficient >= 0 never flips the sign of a   *)
(* velocity and never increases its magnitude: after the air-resistance    *)
(* step of _applyEnvironment each of velocityX and velocityY is 0, or has  *)
(* the sign it had before the step and a magnitude no larger.              *)
(***************************************************************************)
\* The particle as the air-resistance step of a tick that applies elapsedMS
\* finds it, and as the step leaves it.
BeforeAirResistance(p, elapsedMS) ==
    ApplyGravity(em.environment, p, Div(elapsedMS, I(1000)))

AfterAirResistance(p, elapsedMS) ==
    ApplyAirResistance(em.environment, BeforeAirResistance(p, elapsedMS),
                       Div(elapsedMS, I(1000)), ParticleSurface(em.environment, p))

Tamed(before, after) ==
    IsZero(after) \/ (Sign(after) = Sign(before) /\ Le(Abs(after), Abs(before)))

TamedByAir(p, elapsedMS) ==
    /\ Tamed(BeforeAirResistance(p, elapsedMS).velocityX,
             AfterAirResistance(p, elapsedMS).velocityX)
    /\ Tamed(BeforeAirResistance(p, elapsedMS).velocityY,
             AfterAirResistance(p, elapsedMS).velocityY)

AirResistanceTames ==
    (QualifyingTick /\ Ge(em.environment.airResistance, Zero))
        => \A id \in Instances :
              (IsLive(id) /\ Count(children', id) = 1)
                  => TamedByAir(particles[id], Add(em.updateElapsed, I(last'.arg)))

C22_AirResistanceTames == [][AirResistanceTames]_vars

(***************************************************************************)
(* C23: with gravity g, no air resistance, no wind, no Y acceleration and  *)
(* no velocity cap, a live particle that started with velocityY = 0 has    *)
(* velocityY = g * t, where t is the time in seconds the qualifying ticks  *)
(* have applied to it (its currentLife); g is 500 in the configurations    *)
(* that have gravity.                                                      *)
(***************************************************************************)
GravityAlone ==
    /\ TruthyNum(em.environment.gravity)
    /\ IsZero(em.environment.airResistance)
    /\ IsZero(em.environment.windX)
    /\ IsZero(em.environment.windY)

FreeFall(p) ==
    /\ IsZero(p.initVelocityY)
    /\ IsZero(p.accelerationY)
    /\ Lt(p.maxVelocityY, Zero)

C23_VelocityYIsGravityTimesTime ==
    GravityAlone
        => \A id \in Instances :
              (IsLive(id) /\ FreeFall(particles[id]))
                  => particles[id].velocityY
                        = Mul(em.environment.gravity, particles[id].currentLife)

\* A particle two evaluations have advanced, by 100 ms and by 150 ms.
C23_Witness ==
    /\ GravityAlone
    /\ em.environment.gravity = I(500)
    /\ \E id \in Instances :
          /\ IsLive(id)
          /\ FreeFall(particles[id])
          /\ particles[id].currentLife = Q(1, 4)
          /\ particles[id].velocityY = I(125)

(***************************************************************************)
(* C24: the surface factor of a particle always matches its current scale: *)
(* after init, after every updatePhysics and after reset, surfaceFactor =  *)
(* textureWidth * textureHeight * scaleX * scaleY / 1000.  (Every instance *)
(* of the pool has been through reset, when it was prepopulated, or        *)
(* through init, when get handed it out.)                                  *)
(***************************************************************************)
SurfaceOfScale(p) ==
    Div(Mul(Mul(p.textureWidth, p.textureHeight), Mul(p.scaleX, p.scaleY)), I(1000))

C24_SurfaceFactorMatchesScale ==
    \A id \in Instances : particles[id].surfaceFactor = SurfaceOfScale(particles[id])

(***************************************************************************)
(* C25: for every colour configuration of the form {start, end} (any       *)
(* colour values, 0 included), after init the particle's colorStart and    *)
(* colorEnd hold the sampled values and its tint is the start colour.      *)
(***************************************************************************)
ColorIsStartEnd ==
    /\ options.spawnOptions.color.t = "startEnd"
    /\ options.spawnOptions.color.start.t = "num"
    /\ options.spawnOptions.color.end.t = "num"

\* The instance as init leaves it when the pool hands it out.
AsInitialized(p) ==
    InitParticle(p, [spawnOptions |-> options.spawnOptions,
                     contentFrame |-> em.contentFrame], Zero, <<>>)

HasColorsOf(p, color) == p.colorStart = color.start.v /\ p.colorEnd = color.end.v

C25_ColorStartEndApplied ==
    (thrown = "none" /\ ColorIsStartEnd)
        => \A id \in Instances :
              /\ IsLive(id) => HasColorsOf(particles[id], options.spawnOptions.color)
              /\ HasColorsOf(AsInitialized(particles[id]), options.spawnOptions.color)
              /\ AsInitialized(particles[id]).tint = options.spawnOptions.color.start.v

(***************************************************************************)
(* C26: pool reuse is LIFO: when the free list is not empty, get returns   *)
(* the most recently returned (or most recently prepopulated) instance,    *)
(* constructs no new instance and leaves createdCount unchanged.           *)
(***************************************************************************)
\* The step is a call of get that finds the free list not empty.
GetFromFreeList == last'.op = "get" /\ pool.items # <<>>

\* The instance the call before this one put on the free list, if it put one.
JustReturned == last.op = "return" /\ last.was = "Out"

JustPrepopulated == last.op = "prepopulate"

GetReusesNewest ==
    GetFromFreeList
        => /\ last'.arg = pool.items[Len(pool.items)]
           /\ pool'.items = SubSeq(pool.items, 1, Len(pool.items) - 1)
           /\ JustReturned => last'.arg = last.arg
           /\ JustPrepopulated => last'.arg = Len(particles)
           /\ Len(particles') = Len(particles)
           /\ pool'.createdCount = pool.createdCount
           /\ ~particles'[last'.arg].inPool

C26_GetReusesNewest == [][GetReusesNewest]_vars

\* get has just taken the newer of the two instances of the free list, one
\* that had been handed out and returned before.
C26_Witness ==
    /\ last.op = "get"
    /\ last.was = "Handed"
    /\ last.arg # NoItem
    /\ pool.createdCount = 2
    /\ Len(pool.items) = 1
    /\ pool.items[1] # last.arg

(***************************************************************************)
(* C27: in a qualifying tick with spawn on and a spawn interval > 0 the    *)
(* emitter attempts exactly floor(accumulator / interval) spawns, where    *)
(* accumulator is the previous spawn accumulator plus the elapsed time of  *)
(* this evaluation, and then reduces the accumulator by that count times   *)
(* the interval, so that 0 <= accumulator < interval holds after the tick. *)
(* (The interval is the one _updateSpawnRate has just derived; a pool      *)
(* without a cap serves every attempt.)                                    *)
(***************************************************************************)
\* The step is one evaluation of updateEmitter with spawn on.
SpawningTick ==
    /\ QualifyingTick
    /\ listeners = 1
    /\ em.spawn
    /\ Gt(em'.spawnInterval, Zero)

SpawnAccumulator == Add(em.spawnElapsed, Add(em.updateElapsed, I(last'.arg)))

SpawnsDue == FloorInt(Div(SpawnAccumulator, em'.spawnInterval))

SpawnCountIsFloor ==
    SpawningTick
        => /\ last'.attempts = SpawnsDue
           /\ pool.maxPoolSize = Inf => last'.spawned = SpawnsDue
           /\ em'.spawnElapsed = Sub(SpawnAccumulator, Mul(I(SpawnsDue), em'.spawnInterval))
           /\ Ge(em'.spawnElapsed, Zero)
           /\ Lt(em'.spawnElapsed, em'.spawnInterval)

C27_SpawnCountIsFloor == [][SpawnCountIsFloor]_vars

\* An evaluation has spawned twice and kept a remainder.
C27_Witness ==
    /\ AfterQualifyingTick
    /\ listeners = 1
    /\ pool.maxPoolSize = Inf
    /\ last.attempts = 2
    /\ last.spawned = 2
    /\ Gt(em.spawnElapsed, Zero)

(***************************************************************************)
(* C28: a clock tick after which the elapsed time accumulated since the    *)
(* last evaluation is still below the configured interval changes nothing  *)
(* but the update accumulator: no spawn-rate integration, no spawn, no     *)
(* spawn-duration progress, no cull and no particle advance; after an      *)
(* evaluation the update accumulator is 0.                                 *)
(***************************************************************************)
\* What the calls of this tick add to _updateElapsed: the ticker calls the
\* emitter once for each time it is subscribed.
Accumulated == Add(em.updateElapsed, I(listeners * last'.arg))

\* The step is a tick the emitter receives and that stays below the interval.
QuietTick ==
    /\ last'.op = "tick"
    /\ listeners > 0
    /\ Lt(Accumulated, options.updateOptions.interval)

OnlyAccumulates ==
    /\ QuietTick
          => /\ em' = [em EXCEPT !.updateElapsed = Accumulated]
             /\ UNCHANGED <<particles, pool, children, listeners, handed>>
             /\ last'.attempts = 0 /\ last'.spawned = 0 /\ last'.culled = 0
    /\ (QualifyingTick /\ listeners = 1) => em'.updateElapsed = Zero

C28_OnlyAccumulates == [][OnlyAccumulates]_vars

\* A tick has left a spawning emitter with live particles below its interval.
C28_Witness ==
    /\ last.op = "tick"
    /\ last.was = "Running"
    /\ listeners = 1
    /\ Gt(em.updateElapsed, Zero)
    /\ em.spawn
    /\ Gt(em.spawnDuration, Zero)
    /\ children # <<>>

(***************************************************************************)
(* C30: in every qualifying tick each particle that is live when the pass  *)
(* starts (the particles spawned earlier in the same tick included) is     *)
(* handled exactly once: it is either recycled, receiving neither          *)
(* environment forces nor a physics step, or it receives the environment   *)
(* forces once followed by one updatePhysics; removing particles during    *)
(* the reverse-order pass never skips a particle or processes one twice.   *)
(***************************************************************************)
\* The time the evaluation of this tick applies.
Applied == Add(em.updateElapsed, I(last'.arg))

\* The particle after the environment forces and one updatePhysics.
AdvancedOnce(p) ==
    UpdatePhysics(ApplyEnvironment(em.environment, p, Applied), Applied, em.contentFrame)

\* The particle as the pool's return leaves it.
ReturnedAsItWas(p) == Reset([p EXCEPT !.inPool = TRUE])

\* The particle as one of this tick's inits left the instance.
FreshFrom(id, draw) ==
    InitParticle([(IF id \in Instances THEN particles[id] ELSE NewParticle)
                     EXCEPT !.inPool = FALSE],
                 InitData(World), draw.seed, draw.rnd)

\* A particle the tick found live.
HandledOnce(id) ==
    IF IsDead(World, particles[id])
    THEN Recycled(id) /\ particles'[id] = ReturnedAsItWas(particles[id])
    ELSE Count(children', id) = 1 /\ particles'[id] = AdvancedOnce(particles[id])

\* A particle the tick spawned and left live.
SpawnedHandledOnce(id) ==
    /\ Count(children', id) = 1
    /\ \E k \in DOMAIN last'.draws :
          particles'[id] = AdvancedOnce(FreshFrom(id, last'.draws[k]))

EachHandledOnce ==
    (QualifyingTick /\ listeners = 1)
        => /\ \A id \in Instances : IsLive(id) => HandledOnce(id)
           /\ \A id \in DOMAIN particles' :
                 (~(id \in Instances /\ IsLive(id)) /\ Count(children', id) > 0)
                     => SpawnedHandledOnce(id)
           /\ SelectSeq(children', LAMBDA id : id \in Instances /\ IsLive(id))
                 = SelectSeq(children, LAMBDA id : ~IsDead(World, particles[id]))

C30_EachHandledOnce == [][EachHandledOnce]_vars

\* A tick has recycled a particle that stood before one it advanced.
C30_Witness ==
    /\ AfterQualifyingTick
    /\ listeners = 1
    /\ last.culled > 0
    /\ \E id \in Instances :
          /\ IsLive(id)
          /\ Gt(particles[id].currentLife, Q(3, 20))
          /\ \E gone \in Instances : InFreeList(gone) /\ gone < id

(***************************************************************************)
(* C29: within one qualifying tick the steps run in this order: spawn-rate *)
(* integration, then the computation of the spawn count and the spawning,  *)
(* then the spawn-duration auto-stop check, and only after that the        *)
(* cull/advance pass over the live particles.  (As first stated, with the  *)
(* cull/advance pass before the spawn-duration check, it does not hold.)   *)
(***************************************************************************)
IsPrefix(s, t) == Len(s) <= Len(t) /\ s = SubSeq(t, 1, Len(s))

\* The order as first stated: the pass, then the spawn-duration check.
C29_PassBeforeDurationCheck ==
    IsPrefix(last.steps, <<"gate", "rate", "spawn", "children", "duration", "end">>)

\* While the pass over the children has not run, no particle this tick spawned
\* has aged.
NotYetAdvanced ==
    \A k \in DOMAIN children :
        k > Len(children) - last.spawned => IsZero(particles[children[k]].currentLife)

C29_DurationCheckBeforePass ==
    /\ IsPrefix(last.steps, <<"gate", "rate", "spawn", "duration", "children", "end">>)
    /\ Position \in {"duration", "children"} => NotYetAdvanced

\* The spawn-duration check has just switched spawning off, and the particle
\* this tick spawned is still to be advanced.
C29_Witness ==
    /\ Position = "children"
    /\ last.steps = <<"gate", "rate", "spawn", "duration">>
    /\ last.spawned > 0
    /\ ~em.spawn
    /\ Gt(em.spawnDuration, Zero)
    /\ children # <<>>
    /\ NotYetAdvanced

(***************************************************************************)
(* C31: whenever the emitter is Idle (isRunning false) it is not           *)
(* subscribed to the clock, after any sequence of start, pause, resume,    *)
(* stop and public reset calls; so an Idle emitter never processes a tick. *)
(***************************************************************************)
C31_IdleIsUnsubscribed ==
    (thrown = "none" /\ RunState(em) = "Idle")
        => listeners = 0 /\ ~em.clockConnected

(***************************************************************************)
(* C32: once destroy() has been called the emitter is never subscribed to  *)
(* the clock again, whatever lifecycle methods (start, pause, resume,      *)
(* stop, reset) are called afterwards.                                     *)
(***************************************************************************)
C32_DestroyedStaysUnsubscribed ==
    em.destroyed => listeners = 0 /\ ~em.clockConnected

(***************************************************************************)
(* C33: until destroy() is called, the pool's totalUsed equals the number  *)
(* of live particles of the emitter, and totalFree + (number of live       *)
(* particles) = totalSize, after any sequence of start, ticks, pause,      *)
(* resume, stop and reset.                                                 *)
(***************************************************************************)
C33_UsedAreTheLive ==
    ~em.destroyed
        => /\ TotalUsed(World) = Len(children)
           /\ TotalFree(World) + Len(children) = TotalSize(World)

\* A tick has recycled a particle and left another live.
C33_Witness ==
    /\ ~em.destroyed
    /\ last.op = "tick"
    /\ last.culled > 0
    /\ children # <<>>
    /\ pool.items # <<>>

(***************************************************************************)
(* C34: after any sequence of get, return, prepopulate, clear and destroy  *)
(* calls on a pool, totalUsed equals the number of instances handed out by *)
(* get and not yet returned; in particular totalUsed is never negative.    *)
(***************************************************************************)
\* The instances get has handed out and return has not taken back since.
CheckedOut == {id \in handed : ~particles[id].inPool}

C34_UsedAreCheckedOut ==
    /\ TotalUsed(World) = Cardinality(CheckedOut)
    /\ TotalUsed(World) >= 0

(***************************************************************************)
(* C35: after any sequence of pool operations in which no caller writes    *)
(* inPool directly, the free list contains no instance twice and every     *)
(* instance in it has inPool = true; consequently get never hands out an   *)
(* instance that is still checked out, and never hands out an instance     *)
(* that destroy() has destroyed.                                           *)
(***************************************************************************)
FreeListSound ==
    \A id \in Instances :
        /\ Count(pool.items, id) <= 1
        /\ InFreeList(id) => particles[id].inPool /\ ~particles[id].destroyed

\* The step is a call of get that returns an instance.
GetReturnsItem == last'.op = "get" /\ last'.arg # NoItem

GetHandsOutFree ==
    GetReturnsItem
        => /\ last'.arg \notin CheckedOut
           /\ last'.arg \in Instances => ~particles[last'.arg].destroyed
           /\ ~particles'[last'.arg].destroyed
           /\ ~particles'[last'.arg].inPool

C35_FreeListSound == []FreeListSound /\ [][GetHandsOutFree]_vars

\* get has reused an instance of a pool whose destroy() destroyed another.
C35_Witness ==
    /\ last.op = "get"
    /\ last.was = "Handed"
    /\ last.arg # NoItem
    /\ \E id \in Instances : particles[id].destroyed /\ id # last.arg

(***************************************************************************)
(* C36: after start(true) on an emitter whose spawn rate is > 0 and does   *)
(* not fall in the first qualifying tick, that tick attempts at least one  *)
(* spawn however short the elapsed time is, because start primes the spawn *)
(* accumulator with the current spawn interval; this holds also when the   *)
(* spawn rate has a velocity > 0 or an acceleration that leaves it one.    *)
(* (As first stated, for every non-zero velocity or acceleration, it does  *)
(* not hold: a falling rate lengthens the interval before the tick spawns.)*)
(***************************************************************************)
\* The step is the first tick updateEmitter evaluates after start(true), on a
\* rate > 0 before and after the tick has integrated it.
JustStarted == last.op = "start" /\ last.arg = 1 /\ last.was = "Idle" /\ listeners > 0

FirstSpawningTick ==
    /\ JustStarted \/ FreshlyStarted
    /\ QualifyingTick
    /\ Gt(em.spawnRate, Zero)
    /\ Gt(em'.spawnRate, Zero)

FirstTickSpawns == FirstSpawningTick => last'.attempts >= 1

C36_FirstTickSpawns == [][FirstTickSpawns]_vars

FirstTickSpawnsUnlessFalling ==
    (FirstSpawningTick /\ Ge(em'.spawnRate, em.spawnRate)) => last'.attempts >= 1

C36_FirstTickSpawnsUnlessFalling == [][FirstTickSpawnsUnlessFalling]_vars

\* The first evaluation after start(true) has raised the rate from 4 to 5 a
\* second and has spawned, 100 ms after the start.
C36_Witness ==
    /\ AfterQualifyingTick
    /\ options.updateOptions = Rising
    /\ em.spawnRate = I(5)
    /\ last.attempts = 1
    /\ last.spawned = 1
    /\ clock = 2 * ClockStep

(***************************************************************************)
(* C37: spawns refused because the pool is exhausted are not carried over: *)
(* the spawn accumulator is reduced by the full number of attempted spawns *)
(* whether or not particles were produced, so when capacity frees up later *)
(* the emitter spawns only what the then-current accumulator and interval  *)
(* dictate, with no backlog.                                               *)
(***************************************************************************)
\* The pool refused some of the spawns this tick attempted.
Refused == last'.spawned < last'.attempts

RefusedAreDropped ==
    SpawningTick
        => /\ last'.spawned <= SpawnsDue
           /\ Refused => /\ em'.spawnElapsed
                              = Sub(SpawnAccumulator,
                                    Mul(I(last'.attempts), em'.spawnInterval))
                         /\ Lt(em'.spawnElapsed, em'.spawnInterval)

C37_RefusedAreDropped == [][RefusedAreDropped]_vars

\* A tick has attempted more spawns than the exhausted pool served, and has
\* kept less than one interval.
C37_Witness ==
    /\ AfterQualifyingTick
    /\ listeners = 1
    /\ em.spawn
    /\ last.attempts >= 2
    /\ last.spawned < last.attempts
    /\ Exhausted
    /\ Lt(em.spawnElapsed, em.spawnInterval)

(***************************************************************************)
(* C38: for a particle whose position velocity cap on an axis is c >= 0,   *)
(* the distance it moves on that axis in one emitter tick of elapsed time  *)
(* dt never exceeds c * dt, including on its first tick after spawn and    *)
(* when gravity or wind add to its velocity.                               *)
(***************************************************************************)
\* Whether a move from a to b in the applied time keeps to the cap.
WithinReach(a, b, cap) ==
    Ge(cap, Zero) => Le(Abs(Sub(b, a)), Mul(cap, Div(Applied, I(1000))))

\* Where the particle was when the pass of this tick started: where the state
\* before has it, or where init put it.
WasAtX(id) ==
    IF id \in Instances /\ IsLive(id) THEN particles[id].x ELSE particles'[id].initX

WasAtY(id) ==
    IF id \in Instances /\ IsLive(id) THEN particles[id].y ELSE particles'[id].initY

MovesWithinCap ==
    (QualifyingTick /\ listeners = 1)
        => \A id \in DOMAIN particles' :
              Count(children', id) = 1
                  => /\ WithinReach(WasAtX(id), particles'[id].x, particles'[id].maxVelocityX)
                     /\ WithinReach(WasAtY(id), particles'[id].y, particles'[id].maxVelocityY)

C38_MovesWithinCap == [][MovesWithinCap]_vars


(***************************************************************************)
(* Emitters whose maximum velocities are configured as 0: the spawn rate   *)
(* and the particles' position, scale and rotation all start with a        *)
(* velocity and a cap of 0.                                                *)
(***************************************************************************)
StilledMotion ==
    [Vector2(Num(Zero), Num(Zero))
        EXCEPT !.velocityX = Num(I(100)), !.velocityY = Num(I(50)),
               !.maxVelocity = Num(Zero)]

StilledScale ==
    [Vector2(Num(One), Num(One))
        EXCEPT !.velocityX = Num(I(2)), !.maxVelocityX = Num(Zero),
               !.maxVelocityY = Num(Zero)]

StilledSpin == Vector1(Num(Zero), Num(I(5)), Null, Num(Zero))

StilledOptions ==
    [SpawnOptions(StilledMotion, Num(Q(3, 10)), Null)
        EXCEPT !.scale = StilledScale, !.rotation = StilledSpin]

\* Ten particles a second, rising by 10 per second per second, capped at 0.
StilledRate == [Steady EXCEPT !.spawnRate = Vector1(Num(I(10)), Num(I(10)), Null, Num(Zero))]

StillConfigs ==
    {[options |-> EmitterOptions(Num(I(0)), Null, spawnOptions, updateOptions, Null),
      rand |-> Random({Zero}, {Zero})] :
        spawnOptions \in {StilledOptions, CappedOptions},
        updateOptions \in {StilledRate, Steady}}

StillInit == InitOf(StillConfigs)

StillSpec == StillInit /\ [][Next]_vars

\* The option is the number 0.
IsZeroCap(o) == o.t = "num" /\ IsZero(o.v)

\* The cap that applies to one axis: maxVelocity, or else the axis's own.
AxisCap(vec, own) == IF Truthy(vec.maxVelocity) \/ IsZeroCap(vec.maxVelocity)
                     THEN vec.maxVelocity ELSE own

(***************************************************************************)
(* C39: a configured maximum velocity of 0 clamps the velocity to 0.       *)
(* After every tick that passes the gate, the spawn-rate velocity is 0     *)
(* when spawnRate.maxVelocity is 0, and every live particle's position,    *)
(* scale and rotation velocity is 0 on each axis whose configured cap      *)
(* (maxVelocity, or maxVelocityX/Y) is 0.                                  *)
(***************************************************************************)
RateStilled ==
    IsZeroCap(options.updateOptions.spawnRate.maxVelocity) => IsZero(em'.spawnRateVelocity)

ParticleStilled(p, so) ==
    /\ IsZeroCap(AxisCap(so.position, so.position.maxVelocityX)) => IsZero(p.velocityX)
    /\ IsZeroCap(AxisCap(so.position, so.position.maxVelocityY)) => IsZero(p.velocityY)
    /\ Truthy(so.scale) =>
          /\ IsZeroCap(AxisCap(so.scale, so.scale.maxVelocityX)) => IsZero(p.scaleVelocityX)
          /\ IsZeroCap(AxisCap(so.scale, so.scale.maxVelocityY)) => IsZero(p.scaleVelocityY)
    /\ Truthy(so.rotation) =>
          (IsZeroCap(so.rotation.maxVelocity) => IsZero(p.rotationVelocity))

ZeroCapStills ==
    (QualifyingTick /\ listeners = 1)
        => /\ RateStilled
           /\ \A id \in DOMAIN particles' :
                 Count(children', id) = 1
                     => ParticleStilled(particles'[id], options.spawnOptions)

C39_ZeroCapStills == [][ZeroCapStills]_vars

\* The half of C39 about the spawn rate alone.
RateZeroCapStills == [][(QualifyingTick /\ listeners = 1) => RateStilled]_vars

\* A tick has passed the gate of an emitter whose spawn-rate cap is 0.
RateZeroCapTicked ==
    /\ IsZeroCap(options.updateOptions.spawnRate.maxVelocity)
    /\ last.op = "tick" /\ last.attempts > 0
    /\ IsZero(em.spawnRateVelocity)


(***************************************************************************)
(* A clock that never stops.  The time is counted modulo Horizon, so every *)
(* tick moves the clock, and the clock is fair: it goes on delivering      *)
(* ticks whatever the emitter does (the ticker runs on the display's       *)
(* frames, the emitter is one of its listeners).  Nothing else is fair:    *)
(* start, pause, resume, stop and reset happen when the application makes  *)
(* them happen.  The pools are capped at three particles or fewer, so a    *)
(* run never holds more than MaxInstances instances.                       *)
(***************************************************************************)
RunConfigs ==
    {[options |-> EmitterOptions(Num(I(0)), Num(I(2)), ShortLived, Steady, Null),
      rand |-> Random({Zero}, {Zero})],
     [options |-> EmitterOptions(Num(I(1)), Num(I(2)),
                                 SpawnOptions(MovingRight, Range(Q(1, 10), Q(3, 10)), Null),
                                 Brief, Frame),
      rand |-> Random({Zero}, {Zero, Q(1, 2)})],
     [options |-> EmitterOptions(Num(I(0)), Num(I(3)), ShortLived, Brief, Null),
      rand |-> Random({Zero}, {Zero})]}

RunInit == InitOf(RunConfigs)

\* The clock shows the time modulo three steps: no tick leaves it where it was.
Horizon == 3 * ClockStep

\* The clock moves on by one tick's delta.
Beat == \E delta \in Deltas : clock' = (clock + delta) % Horizon

\* The clock delivers a tick of delta milliseconds.
TickOn(delta) ==
    /\ thrown = "none"
    /\ clock' = (clock + delta) % Horizon
    /\ \E draws \in InitDraws(options.spawnOptions, rand,
                              IMin(SpawnAttempts(World, I(delta)), MaxInstances)) :
          CommitTick(TickerEmit([World EXCEPT !.rng = draws], I(delta), listeners),
                     delta, draws, MaxInstances)
    /\ delivered' = Delivered(IF listeners > 0 THEN delta ELSE 0)
    /\ UNCHANGED <<options, rand, thrown>>

RunNext ==
    \/ \E delta \in Deltas : TickOn(delta)
    \/ \E emit \in BOOLEAN : DoStart(emit)
    \/ DoPause
    \/ DoResume
    \/ DoStop
    \/ DoReset

RunSpec == RunInit /\ [][RunNext]_vars /\ WF_clock(Beat)

(***************************************************************************)
(* C40: if the emitter stays Running and the clock keeps delivering ticks, *)
(* every spawned particle with a finite positive lifespan and no onUpdate  *)
(* hook is eventually detached and returned to the pool: from any state in *)
(* which such a particle is live, a state follows in which it is no child  *)
(* of the emitter and lies in the free list, or the emitter is no longer   *)
(* Running.                                                                *)
(***************************************************************************)
Mortal(id) ==
    /\ id \in Instances
    /\ IsLive(id)
    /\ HasLifespan(particles[id])
    /\ particles[id].onUpdate = NoHook

Returned(id) == id \in Instances /\ ~IsLive(id) /\ InFreeList(id)

C40_EveryParticleReturned ==
    \A id \in 1..MaxInstances :
        Mortal(id) ~> (Returned(id) \/ RunState(em) # "Running")

\* A tick of a Running emitter without a frame has just recycled a particle,
\* whose lifespan had run out, into the free list, and the emitter runs on.
C40_Witness ==
    /\ last.op = "tick"
    /\ last.was = "Running"
    /\ RunState(em) = "Running"
    /\ last.culled > 0
    /\ options.contentFrame = Null
    /\ options.spawnOptions.onUpdate = Null
    /\ Truthy(options.spawnOptions.lifespan)
    /\ \E id \in Instances : Returned(id)

====
